---- MODULE Spec2Model ----
(***************************************************************************)
(* CI/CD framework generator (cli/main.py, core/, frameworks/).            *)
(*                                                                         *)
(* The model covers the classifier dispatcher of the `init` and `detect`   *)
(* commands, the gates of the six ecosystem detectors, and the platform    *)
(* loop of the six ecosystem generators.  A project tree is represented by *)
(* the evidence the gates look at; the template directory and the output   *)
(* file system are the environment of a Generate call.                     *)
(*                                                                         *)
(* Spec is the command line; SpecDetect runs the dispatcher of `detect`    *)
(* on trees with the files the detectors read; SpecUtil calls the helpers  *)
(* of core/base_detector.py and _prepare_context on bounded inputs;        *)
(* SpecPar interleaves two invocations on different directories; and       *)
(* SpecRegenerate runs generate() over the files of an earlier run.        *)
(***************************************************************************)
EXTENDS Integers, Sequences, FiniteSets, TLC

VARIABLES
    cmd,                 \* "idle" | "init" | "detect" | "generate" (direct call of a generator)
    pc,                  \* position inside the running command
    project,             \* the project tree: [files, pkgJson, text, found, marks]
    framework,           \* --framework option (NoOption when not given)
    platforms,           \* --platforms option, split at ','
    requested_platforms, \* main.py:66, stripped and lowercased
    frameworks_to_try,   \* main.py:83/86
    fw_idx,              \* position of the for loop over frameworks_to_try
    detection_result,    \* main.py:89
    detected_framework,  \* main.py:90
    exit_code,           \* Running, 0 or 1
    outcome,             \* what the command ended with
    trace,               \* history: the observable steps taken, in order
    generator,           \* the generator class whose generate() is running
    call_args,           \* how generate() was called: [n, platforms]
    gen_pc,              \* position inside generate()
    gen_platforms,       \* the local `platforms` of generate()
    plat_idx,            \* position of the for loop over platforms
    extra_idx,           \* position inside _generate_additional_files()
    generated_files,     \* the dict generate() fills
    context,             \* the template context
    templates,           \* environment: what each template of templates_dir does
    fs,                  \* environment: the output directory
    faults,              \* environment: exceptions raised so far inside generate()
    util_call,           \* a direct call of a helper of BaseDetector: [fn, arg]
    util_ret,            \* what that call returned or raised
    par,                 \* the invocations running side by side: id -> its locals
    disk                 \* the file system they share: [templates, trees, out]

vars == << cmd, pc, project, framework, platforms, requested_platforms,
           frameworks_to_try, fw_idx, detection_result, detected_framework,
           exit_code, outcome, trace, generator, call_args, gen_pc,
           gen_platforms, plat_idx, extra_idx, generated_files, context,
           templates, fs, faults, util_call, util_ret, par, disk >>

-----------------------------------------------------------------------------
(* Bounds of the model *)

\* longest --platforms list / platforms argument explored
MaxPlatforms == 2
\* largest number of gate-relevant entries in a project tree
MaxFiles == 3
\* most exceptions (template, mkdir, write) the environment raises in one generate()
MaxFaults == 1

\* longest version string given to normalize_version
MaxVersionLen == 6
\* longest requirements-style content given to parse_dependencies_from_file
MaxContentLen == 4

-----------------------------------------------------------------------------
(* Values *)

NoOption == "<none>"
Running  == "running"
None     == [isNone |-> TRUE]
Raised   == [raised |-> TRUE]

\* Evidence the six gates look at.  "*.ext" stands for "some file with that
\* extension anywhere below the root" (rglob); the others are root entries.
GateFiles == { "*.py", "package.json", "pom.xml", "build.gradle",
               "build.gradle.kts", "*.java", "*.csproj", "*.sln" }

\* What json.loads() of package.json gives NodeDetector:
\*   "falsy"  empty, unreadable, not JSON, or a falsy JSON value
\*   "object" a JSON object whose dependency sections are objects
\*   "badshape" a JSON number, or an object whose "dependencies" is no object
\*   "bad_engines" an object with sound dependency sections whose "engines"
\*             is no object, or whose "engines.node" is no string
PkgJsonKinds == { "falsy", "object", "badshape" }
EvidencePkgJsonKinds == PkgJsonKinds \cup { "bad_engines" }

\* A project tree, as far as the detectors look at it:
\*   files    the root entries and rglob evidence that exist
\*   pkgJson  what package.json parses to
\*   text     the content read_file() gives for a file ("" when absent here);
\*            requirement and version pin files carry their real text, the
\*            other manifests a placeholder for "some non-empty content"
\*   found    what each search of a manifest captures: <<file, pattern>> -> group
\*   marks    fragments of the text of a manifest: <<file, fragment>>
Tree(files, pkgJson, text, found, marks) ==
    [files |-> files, pkgJson |-> pkgJson, text |-> text, found |-> found, marks |-> marks]

\* The C19 scenario: the flask project of test_workflow.py, and the same
\* directory without its app.py.
FlaskTexts ==
    [f \in { "requirements.txt", "requirements-dev.txt", ".python-version" } |->
        CASE f = "requirements.txt" -> "flask==2.3.0"
          [] f = "requirements-dev.txt" -> "pytest==7.4.0"
          [] OTHER -> "3.11.4"]

FlaskProject == Tree({ "*.py" } \cup DOMAIN FlaskTexts, "absent", FlaskTexts, << >>, {})
FlaskProjectWithoutSources == Tree(DOMAIN FlaskTexts, "absent", FlaskTexts, << >>, {})

\* Every small set of gate evidence, with no content behind it.
GateOnlyTrees ==
    { p \in { Tree(F, k, << >>, << >>, {}) :
                F \in SUBSET GateFiles, k \in PkgJsonKinds \cup {"absent"} } :
        /\ Cardinality(p.files) <= MaxFiles
        /\ (p.pkgJson = "absent") <=> ("package.json" \notin p.files) }

\* The trees the commands are run on.
Projects == GateOnlyTrees \cup { FlaskProject, FlaskProjectWithoutSources }

EmptyProject == Tree({}, "absent", << >>, << >>, {})

-----------------------------------------------------------------------------
(* Python str operations, on TLA+ strings *)

Chr(s, i) == SubSeq(s, i, i)

\* all strings of at most n characters of the alphabet A
RECURSIVE StringsUpTo(_, _)
StringsUpTo(A, n) ==
    IF n = 0 THEN { "" }
    ELSE LET shorter == StringsUpTo(A, n - 1)
         IN shorter \cup { s \o c : s \in shorter, c \in A }

\* s.split(sep) for a one-character sep: always at least one part
RECURSIVE Split(_, _)
Split(s, sep) ==
    LET at == { i \in 1..Len(s) : Chr(s, i) = sep }
    IN IF at = {} THEN << s >>
       ELSE LET i == CHOOSE i \in at : \A j \in at : i <= j
            IN << SubSeq(s, 1, i - 1) >> \o Split(SubSeq(s, i + 1, Len(s)), sep)

Whitespace == { " ", "\t", "\n", "\r" }

\* s.strip()
strip(s) ==
    LET solid == { i \in 1..Len(s) : Chr(s, i) \notin Whitespace }
    IN IF solid = {} THEN ""
       ELSE SubSeq(s, CHOOSE i \in solid : \A j \in solid : i <= j,
                      CHOOSE i \in solid : \A j \in solid : j <= i)

UpperCase == "ABCDEFGHIJKLMNOPQRSTUVWXYZ"
LowerCase == "abcdefghijklmnopqrstuvwxyz"

LowerChr(c) ==
    LET at == { i \in 1..Len(UpperCase) : Chr(UpperCase, i) = c }
    IN IF at = {} THEN c ELSE Chr(LowerCase, CHOOSE i \in at : TRUE)

\* s.lower()
RECURSIVE lower(_)
lower(s) == IF s = "" THEN "" ELSE LowerChr(Chr(s, 1)) \o lower(SubSeq(s, 2, Len(s)))

startswith(s, prefix) == Len(s) >= Len(prefix) /\ SubSeq(s, 1, Len(prefix)) = prefix

endswith(s, suffix) ==
    Len(s) >= Len(suffix) /\ SubSeq(s, Len(s) - Len(suffix) + 1, Len(s)) = suffix

-----------------------------------------------------------------------------
(* core/base_detector.py: normalize_version, parse_dependencies_from_file *)

\* mutant: the first two components are taken without testing that there are two
normalize_version_always_two(version) ==
    LET parts == Split(version, ".")
    IN parts[1] \o "." \o (IF Len(parts) >= 2 THEN parts[2] ELSE "0")

normalize_version(version) ==
    LET parts == Split(version, ".")
    IN IF Len(parts) >= 2 THEN parts[1] \o "." \o parts[2] ELSE version

\* ProjectDetector._normalize_version of the legacy detector: the same code
ProjectDetector_normalize_version(version) ==
    LET parts == Split(version, ".")
    IN IF Len(parts) >= 2 THEN parts[1] \o "." \o parts[2] ELSE version

\* the characters of the class [=<>~!]
VersionOperators == { "=", "<", ">", "~", "!" }

\* re.split(r'[=<>~!]', line)[0]
BeforeOperator(line) ==
    LET at == { i \in 1..Len(line) : Chr(line, i) \in VersionOperators }
    IN IF at = {} THEN line
       ELSE SubSeq(line, 1, (CHOOSE i \in at : \A j \in at : i <= j) - 1)

\* mutant: the test for '-r' lines is missing
SkipsLine_without_r(line) == line = "" \/ startswith(line, "#")

\* `if not line or line.startswith('#') or line.startswith('-r'): continue`
SkipsLine(line) == line = "" \/ startswith(line, "#") \/ startswith(line, "-r")

\* The loop of parse_dependencies_from_file over the content read.
parse_dependencies(content) ==
    LET lines == Split(content, "\n")
        stripped == [i \in 1..Len(lines) |-> lower(strip(lines[i]))]
        pkg(i) == strip(BeforeOperator(stripped[i]))
    IN { pkg(i) : i \in { i \in 1..Len(lines) : ~ SkipsLine(stripped[i]) /\ pkg(i) # "" } }

-----------------------------------------------------------------------------
(* core/base_detector.py: the evidence readers, on the tree p *)

file_exists(p, filename) == filename \in p.files

has_files_with_extension(p, extension) == ("*." \o extension) \in p.files

\* read_file(filename): "" for a file that is missing, empty or unreadable
read_file(p, filename) ==
    IF filename \in p.files /\ filename \in DOMAIN p.text THEN p.text[filename] ELSE ""

IsSubstring(needle, s) ==
    \E i \in 1..(Len(s) - Len(needle) + 1) : SubSeq(s, i, i + Len(needle) - 1) = needle

Fragments(p, filename) ==
    IF read_file(p, filename) = "" THEN {}
    ELSE { m[2] : m \in { m \in p.marks : m[1] = filename } }

\* `needle in content`, for the content of a manifest
Contains(p, filename, needle) ==
    \E fragment \in Fragments(p, filename) : IsSubstring(needle, fragment)

\* `needle in content.lower()`
ContainsLower(p, filename, needle) ==
    \E fragment \in Fragments(p, filename) : IsSubstring(needle, lower(fragment))

\* re.search(pattern, content).group(1) on the content of a manifest;
\* NoMatch when the pattern is not found
NoMatch == ""

Search(p, filename, pattern) ==
    IF read_file(p, filename) # "" /\ << filename, pattern >> \in DOMAIN p.found
    THEN p.found[<< filename, pattern >>]
    ELSE NoMatch

\* extract_version_from_content(content, pattern)
extract_version_from_content(p, filename, pattern) ==
    IF Search(p, filename, pattern) # NoMatch
    THEN normalize_version(Search(p, filename, pattern))
    ELSE NoMatch

-----------------------------------------------------------------------------------------------------------------------------------------------------
(* frameworks/*/detector.py: detect() of each ecosystem.  A result is None,  *)
(* a descriptor, or Raised when detect() ends in an exception.               *)

\* Python's None as the value of a descriptor field
Null == "<null>"

Digits == { "0", "1", "2", "3", "4", "5", "6", "7", "8", "9" }

\* re.search(r'(\d+)', s).group(1): the first run of digits, NoMatch without one
FirstDigits(s) ==
    LET at == { i \in 1..Len(s) : Chr(s, i) \in Digits }
    IN IF at = {} THEN NoMatch
       ELSE LET a == CHOOSE i \in at : \A j \in at : i <= j
                b == CHOOSE i \in a..Len(s) :
                        /\ \A k \in a..i : k \in at
                        /\ (i + 1) \notin at
            IN SubSeq(s, a, b)

\* s.replace(c, '') for a one-character c
RECURSIVE Remove(_, _)
Remove(s, c) ==
    IF s = "" THEN ""
    ELSE (IF Chr(s, 1) = c THEN "" ELSE Chr(s, 1)) \o Remove(SubSeq(s, 2, Len(s)), c)

(* python *)

\* _read_all_dependencies(): both requirement files, and the quoted names of
\* pyproject.toml
Python_read_all_dependencies(p) ==
    parse_dependencies(read_file(p, "requirements.txt"))
    \cup parse_dependencies(read_file(p, "requirements-dev.txt"))
    \cup { n \in { "fastapi", "flask", "django", "pytest" } :
             \/ ContainsLower(p, "pyproject.toml", "'" \o n \o "'")
             \/ ContainsLower(p, "pyproject.toml", "\"" \o n \o "\"") }

\* mutant: the tests are made in the opposite order
Python_detect_framework_django_first(p) ==
    LET deps == Python_read_all_dependencies(p)
    IN CASE "django" \in deps -> "django"
         [] "flask" \in deps -> "flask"
         [] "fastapi" \in deps -> "fastapi"
         [] OTHER -> Null

Python_detect_framework(p) ==
    LET deps == Python_read_all_dependencies(p)
    IN CASE "fastapi" \in deps -> "fastapi"
         [] "flask" \in deps -> "flask"
         [] "django" \in deps -> "django"
         [] OTHER -> Null

\* mutant: requirements.txt is looked for before the lock files
Python_detect_package_manager_requirements_first(p) ==
    CASE file_exists(p, "requirements.txt") -> "pip"
      [] file_exists(p, "poetry.lock") -> "poetry"
      [] file_exists(p, "Pipfile") -> "pipenv"
      [] Contains(p, "pyproject.toml", "[tool.poetry]") -> "poetry"
      [] OTHER -> "pip"

Python_detect_package_manager(p) ==
    CASE file_exists(p, "poetry.lock") -> "poetry"
      [] file_exists(p, "Pipfile") -> "pipenv"
      [] file_exists(p, "requirements.txt") -> "pip"
      [] Contains(p, "pyproject.toml", "[tool.poetry]") -> "poetry"
      [] OTHER -> "pip"

\* mutant: the text of the pin file is returned as it is
Python_detect_python_version_raw(p) ==
    IF file_exists(p, ".python-version") THEN strip(read_file(p, ".python-version"))
    ELSE "3.11"

Python_detect_python_version(p) ==
    CASE file_exists(p, ".python-version") ->
            normalize_version(strip(read_file(p, ".python-version")))
      [] extract_version_from_content(p, "runtime.txt", "python-(d+.d+(.d+)?)") # NoMatch ->
            extract_version_from_content(p, "runtime.txt", "python-(d+.d+(.d+)?)")
      [] extract_version_from_content(p, "pyproject.toml", "python = (d+.d+)") # NoMatch ->
            extract_version_from_content(p, "pyproject.toml", "python = (d+.d+)")
      [] extract_version_from_content(p, "setup.py", "python_requires = (d+.d+)") # NoMatch ->
            extract_version_from_content(p, "setup.py", "python_requires = (d+.d+)")
      [] OTHER -> "3.11"

\* _has_pytest_imports(): some test_*.py below tests/ or test/ imports pytest
\* (a file that cannot be read is passed over)
Python_has_pytest_imports(p) ==
    \E test_dir \in { "tests", "test" } :
        \/ Contains(p, test_dir \o "/test_*.py", "import pytest")
        \/ Contains(p, test_dir \o "/test_*.py", "from pytest")

\* mutant: a project without any sign of pytest is taken for a unittest project
Python_detect_test_framework_unittest_default(p) ==
    CASE file_exists(p, "pytest.ini") -> "pytest"
      [] Contains(p, "pyproject.toml", "[tool.pytest") -> "pytest"
      [] Contains(p, "setup.cfg", "[tool:pytest]") \/ Contains(p, "setup.cfg", "[pytest]") -> "pytest"
      [] "pytest" \in Python_read_all_dependencies(p) -> "pytest"
      [] Python_has_pytest_imports(p) -> "pytest"
      [] OTHER -> "unittest"

\* _detect_test_framework(): five signals, then the default
Python_detect_test_framework(p) ==
    CASE file_exists(p, "pytest.ini") -> "pytest"
      [] Contains(p, "pyproject.toml", "[tool.pytest") -> "pytest"
      [] Contains(p, "setup.cfg", "[tool:pytest]") \/ Contains(p, "setup.cfg", "[pytest]") -> "pytest"
      [] "pytest" \in Python_read_all_dependencies(p) -> "pytest"
      [] Python_has_pytest_imports(p) -> "pytest"
      [] OTHER -> "pytest"

PythonDetector_detect(p) ==
    IF ~ has_files_with_extension(p, "py") THEN None
    ELSE [language |-> "python",
          framework |-> Python_detect_framework(p),
          package_manager |-> Python_detect_package_manager(p),
          python_version |-> Python_detect_python_version(p),
          test_framework |-> Python_detect_test_framework(p)]

(* node *)

\* _get_all_dependencies(pkg): the keys of the three dependency sections
Node_get_all_dependencies(p) ==
    { n \in { "next", "@nestjs/core", "express", "fastify", "koa", "jest", "mocha", "vitest" } :
        << "package.json", n >> \in p.marks }

Node_detect_framework(p) ==
    LET deps == Node_get_all_dependencies(p)
    IN CASE p.pkgJson = "falsy" -> Null
         [] "next" \in deps -> "nextjs"
         [] "@nestjs/core" \in deps -> "nestjs"
         [] "express" \in deps -> "express"
         [] "fastify" \in deps -> "fastify"
         [] "koa" \in deps -> "koa"
         [] OTHER -> Null

\* pkg['engines']['node'], NoMatch when 'engines' or 'node' is no key
Node_engines_node(p) ==
    IF p.pkgJson = "object" /\ << "package.json", "engines.node" >> \in DOMAIN p.found
    THEN p.found[<< "package.json", "engines.node" >>]
    ELSE NoMatch

Node_detect_node_version(p) ==
    CASE file_exists(p, ".nvmrc") -> Remove(strip(read_file(p, ".nvmrc")), "v")
      [] FirstDigits(Node_engines_node(p)) # NoMatch -> FirstDigits(Node_engines_node(p))
      [] OTHER -> "20"

Node_detect_package_manager(p) ==
    CASE file_exists(p, "pnpm-lock.yaml") -> "pnpm"
      [] file_exists(p, "yarn.lock") -> "yarn"
      [] OTHER -> "npm"

Node_detect_test_framework(p) ==
    LET deps == Node_get_all_dependencies(p)
    IN CASE p.pkgJson = "falsy" -> "jest"
         [] "jest" \in deps -> "jest"
         [] "mocha" \in deps -> "mocha"
         [] "vitest" \in deps -> "vitest"
         [] OTHER -> "jest"

\* Where detect() raises: _get_all_dependencies() calls .keys() on a section
\* that is no object, or `in` / the subscript is applied to a number
\* (TypeError, AttributeError); _detect_node_version() subscripts or searches
\* an 'engines' value of the wrong type, unless .nvmrc answered first.
Node_detect_raises(p) ==
    \/ p.pkgJson = "badshape"
    \/ p.pkgJson = "bad_engines" /\ ~ file_exists(p, ".nvmrc")

NodeDetector_detect(p) ==
    IF ~ file_exists(p, "package.json") THEN None
    ELSE IF Node_detect_raises(p) THEN Raised
    ELSE [language |-> "node",
          framework |-> Node_detect_framework(p),
          node_version |-> Node_detect_node_version(p),
          package_manager |-> Node_detect_package_manager(p),
          test_framework |-> Node_detect_test_framework(p)]

(* maven *)

\* ET.fromstring() raises ParseError on a pom.xml that is not well-formed;
\* the handler around the whole lookup then leaves the default.
Maven_detect_java_version(p) ==
    CASE read_file(p, "pom.xml") = "" -> "17"
      [] Search(p, "pom.xml", "ET.fromstring raises") # NoMatch -> "17"
      [] Search(p, "pom.xml", "properties") # NoMatch ->
            strip(Search(p, "pom.xml", "properties"))
      [] Search(p, "pom.xml", "<maven.compiler.source>(d+)") # NoMatch ->
            Search(p, "pom.xml", "<maven.compiler.source>(d+)")
      [] Search(p, "pom.xml", "<java.version>(d+)") # NoMatch ->
            Search(p, "pom.xml", "<java.version>(d+)")
      [] OTHER -> "17"

Maven_detect_framework(p) ==
    CASE ContainsLower(p, "pom.xml", "spring-boot-starter") -> "spring-boot"
      [] ContainsLower(p, "pom.xml", "quarkus") -> "quarkus"
      [] ContainsLower(p, "pom.xml", "micronaut") -> "micronaut"
      [] ContainsLower(p, "pom.xml", "jakarta.ee") \/ ContainsLower(p, "pom.xml", "javax.ee") -> "jakarta-ee"
      [] OTHER -> Null

Maven_detect_test_framework(p) ==
    CASE ContainsLower(p, "pom.xml", "junit-jupiter") \/ ContainsLower(p, "pom.xml", "junit5") -> "junit5"
      [] ContainsLower(p, "pom.xml", "junit") -> "junit4"
      [] ContainsLower(p, "pom.xml", "testng") -> "testng"
      [] OTHER -> "junit5"

Maven_is_multi_module(p) ==
    Contains(p, "pom.xml", "<modules>") /\ Contains(p, "pom.xml", "<module>")

Maven_detect_packaging(p) ==
    IF Search(p, "pom.xml", "<packaging>(w+)</packaging>") # NoMatch
    THEN Search(p, "pom.xml", "<packaging>(w+)</packaging>")
    ELSE "jar"

MavenDetector_detect(p) ==
    IF ~ file_exists(p, "pom.xml") THEN None
    ELSE [language |-> "java", build_tool |-> "maven",
          framework |-> Maven_detect_framework(p),
          java_version |-> Maven_detect_java_version(p),
          test_framework |-> Maven_detect_test_framework(p),
          is_multi_module |-> Maven_is_multi_module(p),
          packaging |-> Maven_detect_packaging(p)]

(* gradle *)

\* `read_file('build.gradle')`, and `read_file('build.gradle.kts')` when that is empty
GradleScript(p) ==
    IF read_file(p, "build.gradle") # "" THEN "build.gradle" ELSE "build.gradle.kts"

Gradle_detect_java_version(p) ==
    CASE Search(p, GradleScript(p), "sourceCompatibility = (d+)") # NoMatch ->
            Search(p, GradleScript(p), "sourceCompatibility = (d+)")
      [] Search(p, GradleScript(p), "JavaVersion.VERSION_(d+)") # NoMatch ->
            Search(p, GradleScript(p), "JavaVersion.VERSION_(d+)")
      [] Search(p, GradleScript(p), "JavaLanguageVersion.of((d+))") # NoMatch ->
            Search(p, GradleScript(p), "JavaLanguageVersion.of((d+))")
      [] OTHER -> "17"

Gradle_detect_framework(p) ==
    CASE \/ ContainsLower(p, GradleScript(p), "spring-boot")
         \/ ContainsLower(p, GradleScript(p), "org.springframework.boot") -> "spring-boot"
      [] ContainsLower(p, GradleScript(p), "quarkus") -> "quarkus"
      [] ContainsLower(p, GradleScript(p), "micronaut") -> "micronaut"
      [] OTHER -> Null

Gradle_detect_test_framework(p) ==
    CASE \/ ContainsLower(p, GradleScript(p), "junit-jupiter")
         \/ ContainsLower(p, GradleScript(p), "'junit5'") -> "junit5"
      [] ContainsLower(p, GradleScript(p), "junit") -> "junit4"
      [] ContainsLower(p, GradleScript(p), "testng") -> "testng"
      [] ContainsLower(p, GradleScript(p), "spock") -> "spock"
      [] OTHER -> "junit5"

Gradle_is_multi_project(p) ==
    file_exists(p, "settings.gradle") \/ file_exists(p, "settings.gradle.kts")

Gradle_detect_packaging(p) ==
    IF \/ Contains(p, GradleScript(p), "id 'war'")
       \/ Contains(p, GradleScript(p), "id(\"war\")")
       \/ Contains(p, GradleScript(p), "apply plugin: 'war'")
       \/ Contains(p, GradleScript(p), "apply plugin: \"war\"")
       \/ Contains(p, GradleScript(p), "bootWar")
    THEN "war"
    ELSE "jar"

GradleDetector_detect(p) ==
    IF ~ (file_exists(p, "build.gradle") \/ file_exists(p, "build.gradle.kts")) THEN None
    ELSE [language |-> "java", build_tool |-> "gradle",
          framework |-> Gradle_detect_framework(p),
          java_version |-> Gradle_detect_java_version(p),
          test_framework |-> Gradle_detect_test_framework(p),
          uses_kotlin_dsl |-> file_exists(p, "build.gradle.kts"),
          is_multi_project |-> Gradle_is_multi_project(p),
          packaging |-> Gradle_detect_packaging(p)]

(* java *)

\* mutant: the gate forgets to leave Maven and Gradle projects to their detectors
JavaDetector_detect_no_exclusion(p) ==
    IF ~ has_files_with_extension(p, "java") THEN None
    ELSE [language |-> "java", build_tool |-> "none", framework |-> Null,
          java_version |-> "17", test_framework |-> "junit5"]

JavaDetector_detect(p) ==
    IF ~ has_files_with_extension(p, "java") THEN None
    ELSE IF \/ file_exists(p, "pom.xml")
            \/ file_exists(p, "build.gradle")
            \/ file_exists(p, "build.gradle.kts") THEN None
    ELSE [language |-> "java", build_tool |-> "none", framework |-> Null,
          java_version |-> "17", test_framework |-> "junit5"]

(* dotnet *)

\* project_file: the first *.csproj that rglob lists; its content is read
\* inside a handler, so an unreadable file counts as empty.  The second
\* pattern of the source, net(\d)\.(\d+), matches nothing the first does not.
DotNet_detect_dotnet_version(p) ==
    CASE ~ has_files_with_extension(p, "csproj") -> "8.0"
      [] Search(p, "*.csproj", "<TargetFramework>net(d+.d+)") # NoMatch ->
            Search(p, "*.csproj", "<TargetFramework>net(d+.d+)")
      [] Search(p, "*.csproj", "<TargetFramework>netcoreapp(d+.d+)") # NoMatch ->
            Search(p, "*.csproj", "<TargetFramework>netcoreapp(d+.d+)")
      [] OTHER -> "8.0"

DotNet_detect_framework(p) ==
    CASE ~ has_files_with_extension(p, "csproj") -> Null
      [] \/ ContainsLower(p, "*.csproj", "microsoft.aspnetcore.blazor")
         \/ ContainsLower(p, "*.csproj", "microsoft.aspnetcore.components") ->
            IF ContainsLower(p, "*.csproj", "webassembly") THEN "blazor-wasm" ELSE "blazor-server"
      [] ContainsLower(p, "*.csproj", "microsoft.aspnetcore") -> "aspnetcore"
      [] ContainsLower(p, "*.csproj", "microsoft.net.sdk.web") -> "aspnetcore"
      [] ContainsLower(p, "*.csproj", "microsoft.entityframeworkcore") -> "efcore"
      [] OTHER -> Null

\* mutant: a project file without any marker counts as a library
DotNet_detect_project_type_library(p) ==
    CASE ~ has_files_with_extension(p, "csproj") -> "library"
      [] Contains(p, "*.csproj", "Microsoft.NET.Sdk.Web") -> "web"
      [] OTHER -> "library"

DotNet_detect_project_type(p) ==
    CASE ~ has_files_with_extension(p, "csproj") -> "console"
      [] Contains(p, "*.csproj", "Microsoft.NET.Sdk.Web") -> "web"
      [] Contains(p, "*.csproj", "Microsoft.NET.Sdk.Worker") -> "worker"
      [] Contains(p, "*.csproj", "<OutputType>Exe</OutputType>") -> "console"
      [] Contains(p, "*.csproj", "<OutputType>Library</OutputType>") -> "library"
      [] OTHER -> "console"

DotNet_detect_test_framework(p) ==
    CASE ContainsLower(p, "*.csproj", "xunit") -> "xunit"
      [] ContainsLower(p, "*.csproj", "nunit") -> "nunit"
      [] ContainsLower(p, "*.csproj", "mstest") -> "mstest"
      [] OTHER -> "xunit"

DotNet_is_web_app(p) ==
    /\ has_files_with_extension(p, "csproj")
    /\ \/ Contains(p, "*.csproj", "Microsoft.NET.Sdk.Web")
       \/ Contains(p, "*.csproj", "Microsoft.AspNetCore")

DotNetDetector_detect(p) ==
    IF ~ has_files_with_extension(p, "csproj") /\ ~ has_files_with_extension(p, "sln") THEN None
    ELSE [language |-> "dotnet",
          framework |-> DotNet_detect_framework(p),
          dotnet_version |-> DotNet_detect_dotnet_version(p),
          project_type |-> DotNet_detect_project_type(p),
          test_framework |-> DotNet_detect_test_framework(p),
          has_solution |-> has_files_with_extension(p, "sln"),
          is_web_app |-> DotNet_is_web_app(p)]

-----
(* frameworks/__init__.py: the registry.  A dict literal iterates in the    *)
(* order of its keys' insertion.                                            *)

\* mutant: the generic java entry is declared before the build-tool entries
AVAILABLE_FRAMEWORKS_java_first == << "python", "node", "java", "maven", "gradle", "dotnet" >>

AVAILABLE_FRAMEWORKS == << "python", "node", "maven", "gradle", "java", "dotnet" >>

Range(s) == { s[i] : i \in 1..Len(s) }

Values(f) == { f[k] : k \in DOMAIN f }

RegistryKeys == Range(AVAILABLE_FRAMEWORKS)

\* AVAILABLE_FRAMEWORKS[fw_name]['detector'](project_path).detect(); the
\* subscript raises KeyError for a name that is no key.
Detect(fw_name, p) ==
    CASE fw_name = "python" -> PythonDetector_detect(p)
      [] fw_name = "node"   -> NodeDetector_detect(p)
      [] fw_name = "maven"  -> MavenDetector_detect(p)
      [] fw_name = "gradle" -> GradleDetector_detect(p)
      [] fw_name = "java"   -> JavaDetector_detect(p)
      [] fw_name = "dotnet" -> DotNetDetector_detect(p)
      [] OTHER              -> Raised

-----------------------------------------------------------------------------
(* cli/main.py: option values *)

\* A --platforms item as typed, and p.strip().lower() of it (main.py:66).
PlatformTokens == { "jenkins", "gitlab", " GitHub ", "docker" }

strip_lower(tok) == IF tok = " GitHub " THEN "github" ELSE tok

\* mutant: the allow-list also admits the docker key of the template maps
valid_platforms_with_docker == { "jenkins", "gitlab", "github", "docker" }

valid_platforms == { "jenkins", "gitlab", "github" }

\* --framework values: not given, the empty string, the registry keys, and
\* a name the registry does not know.
FrameworkOptions == { NoOption, "", "rust" } \cup RegistryKeys

\* `if framework:` (main.py:77, 216): None and "" are both falsy.
Truthy(f) == f # NoOption /\ f # ""

\* mutant: the membership test is left out and every forced name is used
UnknownFramework_unchecked(f) == FALSE

\* `if framework not in AVAILABLE_FRAMEWORKS:` (main.py:78, 217)
UnknownFramework(f) == f \notin RegistryKeys

\* mutant: init goes on to the generator without looking at the result
DetectionFailed_unchecked(result) == FALSE

\* `if detection_result is None:` (main.py:109)
DetectionFailed(result) == result = None

SeqsUpTo(S, n) == UNION { [1..k -> S] : k \in 0..n }

Event(kind, key, detail) == << kind, key, detail >>

Events(kind) == { i \in 1..Len(trace) : trace[i][1] = kind }

-----------------------------------------------------------------------------
(* Initial state: no command is running *)

NoCall == [n |-> 0, isNone |-> TRUE, list |-> << >>]

NoUtilCall == [fn |-> "", arg |-> ""]
NotReturned == [pending |-> TRUE]
Returned(value) == [value |-> value]

Init ==
    /\ cmd = "idle"
    /\ pc = "idle"
    /\ project = EmptyProject
    /\ framework = NoOption
    /\ platforms = << >>
    /\ requested_platforms = << >>
    /\ frameworks_to_try = << >>
    /\ fw_idx = 1
    /\ detection_result = None
    /\ detected_framework = NoOption
    /\ exit_code = Running
    /\ outcome = ""
    /\ trace = << >>
    /\ generator = NoOption
    /\ call_args = NoCall
    /\ gen_pc = "idle"
    /\ gen_platforms = << >>
    /\ plat_idx = 1
    /\ extra_idx = 1
    /\ generated_files = << >>
    /\ context = None
    /\ templates = << >>
    /\ fs = << >>
    /\ faults = 0
    /\ util_call = NoUtilCall
    /\ util_ret = NotReturned
    /\ par = << >>
    /\ disk = << >>

\* what the command line never touches
parVars == << par, disk >>
utilVars == << util_call, util_ret, parVars >>

dispatchVars == << frameworks_to_try, fw_idx, detection_result, detected_framework >>
genVars == << generator, call_args, gen_pc, gen_platforms, plat_idx, extra_idx,
              generated_files, context, templates, fs, faults >>

Exit(code, what) ==
    /\ pc' = "done"
    /\ exit_code' = code
    /\ outcome' = what

-----------------------------------------------------------------------------
(* cli/main.py: init and detect *)

\* `cicd init PATH --framework F --platforms P`
InvokeInit ==
    /\ UNCHANGED utilVars
    /\ cmd = "idle"
    /\ \E p \in Projects, f \in FrameworkOptions,
          ps \in SeqsUpTo(PlatformTokens, MaxPlatforms) \ { << >> } :
          /\ project' = p
          /\ framework' = f
          /\ platforms' = ps
    /\ cmd' = "init"
    /\ pc' = "validate"
    /\ UNCHANGED << requested_platforms, exit_code, outcome, trace >>
    /\ UNCHANGED dispatchVars
    /\ UNCHANGED genVars

\* `cicd detect PATH --framework F`
InvokeDetect ==
    /\ UNCHANGED utilVars
    /\ cmd = "idle"
    /\ \E p \in Projects, f \in FrameworkOptions :
          /\ project' = p
          /\ framework' = f
    /\ cmd' = "detect"
    /\ pc' = "select"
    /\ UNCHANGED << platforms, requested_platforms, exit_code, outcome, trace >>
    /\ UNCHANGED dispatchVars
    /\ UNCHANGED genVars

\* main.py:65-74
ValidatePlatforms ==
    /\ UNCHANGED utilVars
    /\ cmd = "init" /\ pc = "validate"
    /\ LET req == [i \in 1..Len(platforms) |-> strip_lower(platforms[i])]
           invalid == { i \in 1..Len(req) : req[i] \notin valid_platforms }
       IN /\ requested_platforms' = req
          /\ IF invalid # {}
             THEN /\ Exit(1, "InvalidPlatform")
                  /\ trace' = Append(trace, Event("validate_platforms", "", "invalid"))
             ELSE /\ pc' = "select"
                  /\ trace' = Append(trace, Event("validate_platforms", "", "ok"))
                  /\ UNCHANGED << exit_code, outcome >>
    /\ UNCHANGED << cmd, project, framework, platforms >>
    /\ UNCHANGED dispatchVars
    /\ UNCHANGED genVars

\* main.py:76-86 and 215-223
SelectFrameworks ==
    /\ UNCHANGED utilVars
    /\ cmd \in {"init", "detect"} /\ pc = "select"
    /\ IF Truthy(framework)
       THEN IF UnknownFramework(framework)
            THEN /\ Exit(1, "UnknownEcosystem")
                 /\ trace' = Append(trace, Event("check_framework", framework, "unknown"))
                 /\ UNCHANGED frameworks_to_try
            ELSE /\ frameworks_to_try' = << framework >>
                 /\ pc' = "loop"
                 /\ trace' = Append(trace, Event("check_framework", framework, "forced"))
                 /\ UNCHANGED << exit_code, outcome >>
       ELSE /\ frameworks_to_try' = AVAILABLE_FRAMEWORKS
            /\ pc' = "loop"
            /\ trace' = Append(trace, Event("check_framework", framework, "all"))
            /\ UNCHANGED << exit_code, outcome >>
    /\ UNCHANGED << cmd, project, framework, platforms, requested_platforms,
                    fw_idx, detection_result, detected_framework >>
    /\ UNCHANGED genVars

\* One iteration of the for loop, main.py:92-106 (init) and 226-239 (detect).
\* An exception of detect() is not caught: the command ends with a traceback.
TryDetector ==
    /\ UNCHANGED utilVars
    /\ cmd \in {"init", "detect"} /\ pc = "loop"
    /\ fw_idx <= Len(frameworks_to_try)
    /\ LET fw_name == frameworks_to_try[fw_idx]
           result == Detect(fw_name, project)
       IN IF result = Raised
          THEN /\ Exit(1, "Crash")
               /\ trace' = Append(trace, Event("detect", fw_name, "raised"))
               /\ UNCHANGED << fw_idx, detection_result, detected_framework >>
          ELSE IF result # None
          THEN /\ detection_result' = result
               /\ detected_framework' = fw_name
               /\ trace' = Append(trace, Event("detect", fw_name, "descriptor"))
               /\ UNCHANGED fw_idx
               /\ IF cmd = "init"
                  THEN /\ pc' = "check"
                       /\ UNCHANGED << exit_code, outcome >>
                  ELSE Exit(0, "Detected")
          ELSE /\ fw_idx' = fw_idx + 1
               /\ trace' = Append(trace, Event("detect", fw_name, "none"))
               /\ UNCHANGED << pc, exit_code, outcome, detection_result, detected_framework >>
    /\ UNCHANGED << cmd, project, framework, platforms, requested_platforms,
                    frameworks_to_try >>
    /\ UNCHANGED genVars

\* The loop ran out of frameworks: main.py:108 (init), 241-243 (detect).
LoopExhausted ==
    /\ UNCHANGED utilVars
    /\ cmd \in {"init", "detect"} /\ pc = "loop"
    /\ fw_idx > Len(frameworks_to_try)
    /\ IF cmd = "init"
       THEN /\ pc' = "check"
            /\ UNCHANGED << exit_code, outcome >>
       ELSE Exit(1, "NoEcosystemDetected")
    /\ UNCHANGED << cmd, project, framework, platforms, requested_platforms, trace >>
    /\ UNCHANGED dispatchVars
    /\ UNCHANGED genVars

\* main.py:108-116
InitCheckDetection ==
    /\ UNCHANGED utilVars
    /\ cmd = "init" /\ pc = "check"
    /\ IF DetectionFailed(detection_result)
       THEN Exit(1, "NoEcosystemDetected")
       ELSE /\ pc' = "generate"
            /\ UNCHANGED << exit_code, outcome >>
    /\ UNCHANGED << cmd, project, framework, platforms, requested_platforms, trace >>
    /\ UNCHANGED dispatchVars
    /\ UNCHANGED genVars

-----------------------------------------------------------------------------
(* frameworks/*/generator.py *)

Generators == RegistryKeys

\* get_platform_template_map() of each generator; JavaGenerator has none.
PythonTemplateMap ==
    [ jenkins |-> [template |-> "Jenkinsfile.j2",        output |-> "Jenkinsfile"],
      gitlab  |-> [template |-> "gitlab-ci.yml.j2",      output |-> ".gitlab-ci.yml"],
      github  |-> [template |-> "github-actions.yml.j2", output |-> ".github/workflows/ci.yml"] ]

BuildToolTemplateMap ==
    [ jenkins |-> [template |-> "Jenkinsfile.j2",        output |-> "Jenkinsfile"],
      gitlab  |-> [template |-> "gitlab-ci.yml.j2",      output |-> ".gitlab-ci.yml"],
      github  |-> [template |-> "github-actions.yml.j2", output |-> ".github/workflows/ci-cd.yml"],
      docker  |-> [template |-> "Dockerfile.j2",         output |-> "Dockerfile"] ]

get_platform_template_map(g) ==
    IF g = "python" THEN PythonTemplateMap ELSE BuildToolTemplateMap

\* _generate_additional_files(): the files attempted after the platform loop, in
\* order.  PythonGenerator tests templates_dir / template .exists() before each
\* (guarded); the other generators render Dockerfile.j2 inside one try.
PythonExtras ==
    << [key |-> "dockerfile",     template |-> "Dockerfile.j2",
        output |-> "Dockerfile",         guarded |-> TRUE],
       [key |-> "docker_compose", template |-> "docker-compose.yml.j2",
        output |-> "docker-compose.yml", guarded |-> TRUE],
       [key |-> "readme",         template |-> "README.md.j2",
        output |-> "CICD_README.md",     guarded |-> TRUE] >>

BuildToolExtras ==
    << [key |-> "dockerfile", template |-> "Dockerfile.j2",
        output |-> "Dockerfile", guarded |-> FALSE] >>

additional_files(g) ==
    IF g = "python" THEN PythonExtras ELSE BuildToolExtras

\* The directory an output path needs below the output directory ("" for none).
ParentDir(path) ==
    IF path \in { ".github/workflows/ci.yml", ".github/workflows/ci-cd.yml" }
    THEN ".github/workflows" ELSE ""

\* Does generate() of g accept a call with n positional arguments?
\* JavaGenerator.generate(self, detection_result, output_dir) takes two.
AcceptsCall(g, n) == IF g = "java" THEN n = 2 ELSE n \in {2, 3}

\* mutant: the default is the empty list
DefaultPlatforms_empty == << >>

\* `if platforms is None: platforms = ['jenkins']`
DefaultPlatforms == << "jenkins" >>

EffectivePlatforms(args) ==
    IF args.n = 2 \/ args.isNone THEN DefaultPlatforms ELSE args.list

\* function helpers
Get(f, k, default) == IF k \in DOMAIN f THEN f[k] ELSE default
Put(f, k, v) == [x \in DOMAIN f \cup {k} |-> IF x = k THEN v ELSE f[x]]

\* the `ports` dict of _get_framework_port() of each generator
FrameworkPorts(g) ==
    CASE g = "python" -> [flask |-> 5000, django |-> 8000, fastapi |-> 8000,
                          starlette |-> 8000, tornado |-> 8888, aiohttp |-> 8080]
      [] g = "node"   -> [express |-> 3000, nestjs |-> 3000, nextjs |-> 3000,
                          fastify |-> 3000, koa |-> 3000]
      [] g = "maven"  -> ("spring-boot" :> 8080) @@ ("quarkus" :> 8080)
                         @@ ("micronaut" :> 8080) @@ ("jakarta-ee" :> 8080)
      [] g = "gradle" -> ("spring-boot" :> 8080) @@ ("quarkus" :> 8080) @@ ("micronaut" :> 8080)
      [] g = "dotnet" -> ("aspnetcore" :> 8080) @@ ("blazor-server" :> 8080)
                         @@ ("blazor-wasm" :> 8080)
      [] OTHER        -> << >>

\* mutant: PythonGenerator falls back to the port of the other generators
FallbackPort_of_the_jvm(g) ==
    IF g = "node" THEN 3000 ELSE 8080

\* the second argument of ports.get(): the port of a framework not in the dict
FallbackPort(g) ==
    CASE g = "python" -> 8000
      [] g = "node"   -> 3000
      [] OTHER        -> 8080

\* _get_framework_port(framework); fw is a string or Null (Python's None).
\* PythonGenerator returns early for a falsy framework and looks up
\* framework.lower(); JavaGenerator has no lookup and sets 8080.
get_framework_port(g, fw) ==
    IF g = "python"
    THEN IF fw = Null \/ fw = "" THEN 8000
         ELSE Get(FrameworkPorts(g), lower(fw), FallbackPort(g))
    ELSE Get(FrameworkPorts(g), fw, FallbackPort(g))

\* add_base_context() and _prepare_context(), on the descriptor fields above;
\* generation_date is datetime.now() to the second, `now` in this model.
\* detection_result.get(key) gives None for a key the descriptor lacks.
prepare_context(g, d, now) ==
    [language |-> Get(d, "language", Null),
     framework |-> Get(d, "framework", Null),
     docker_port |-> get_framework_port(g, Get(d, "framework", Null)),
     generator |-> g, generation_date |-> now]

\* The second of the wall clock at which a run of generate() builds its
\* context: the first run of a behaviour at second 0, a second run in the same
\* second or in the next one.
ClockChoices == IF \E i \in 1..Len(trace) : trace[i][1] = "rerun" THEN {0, 1} ELSE {0}

\* A platform identifier a caller of generate() may pass.
GenTokens == { "jenkins", "gitlab", "github", "docker", "travis" }

CallArgs ==
    { [n |-> 2, isNone |-> TRUE, list |-> << >>],
      [n |-> 3, isNone |-> TRUE, list |-> << >>] }
    \cup { [n |-> 3, isNone |-> FALSE, list |-> l] : l \in SeqsUpTo(GenTokens, MaxPlatforms) }

Descriptors(g) == { Detect(g, p) : p \in Projects } \ { None, Raised }

\* A direct call generator.generate(detection_result, output_dir[, platforms])
\* (the __main__ blocks of the generator modules call it this way).
InvokeGenerate ==
    /\ UNCHANGED utilVars
    /\ cmd = "idle"
    /\ cmd' = "generate"
    /\ pc' = "generating"
    /\ \E g \in Generators :
          /\ generator' = g
          /\ \E d \in Descriptors(g) : detection_result' = d
          /\ detected_framework' = g
    /\ \E a \in CallArgs : call_args' = a
    /\ gen_pc' = "call"
    /\ trace' = Append(trace, Event("generate", generator', ""))
    /\ UNCHANGED << project, framework, platforms, requested_platforms,
                    frameworks_to_try, fw_idx, exit_code, outcome >>
    /\ UNCHANGED << gen_platforms, plat_idx, extra_idx, generated_files, context,
                    templates, fs, faults >>

\* main.py:147-152.  Nothing after this line reads the option values, the
\* loop variables or, in this model, the evidence of the tree again: they
\* leave the state here (the trace keeps what the dispatcher did), so that
\* generation runs are told apart only by what generate() is given.
InitCallGenerate ==
    /\ UNCHANGED utilVars
    /\ cmd = "init" /\ pc = "generate"
    /\ generator' = detected_framework
    /\ call_args' = [n |-> 3, isNone |-> FALSE, list |-> requested_platforms]
    /\ gen_pc' = "call"
    /\ pc' = "generating"
    /\ trace' = Append(trace, Event("generate", detected_framework, ""))
    /\ project' = EmptyProject
    /\ framework' = NoOption
    /\ platforms' = << >>
    /\ frameworks_to_try' = << >>
    /\ fw_idx' = 1
    /\ UNCHANGED << cmd, requested_platforms, exit_code, outcome,
                    detection_result, detected_framework >>
    /\ UNCHANGED << gen_platforms, plat_idx, extra_idx, generated_files, context,
                    templates, fs, faults >>

cliVars == << cmd, pc, project, framework, platforms, requested_platforms,
             exit_code, outcome >>

\* Entry of generate() up to the platform loop.
\*   JavaGenerator: generator.py:15-29, returns with no file attempted.
\*   the others: e.g. python/generator.py:46-67; output_path.mkdir() is not
\*   inside any try, so its failure leaves generate() by an exception.  The
\*   init command passes the project directory, which exists.
GenerateEnter ==
    /\ UNCHANGED utilVars
    /\ gen_pc = "call"
    /\ IF ~ AcceptsCall(generator, call_args.n)
       THEN /\ gen_pc' = "raised"
            /\ trace' = Append(trace, Event("raise", "generate", "TypeError"))
            /\ UNCHANGED << gen_platforms, generated_files, context >>
       ELSE IF generator = "java"
       THEN /\ gen_pc' = "returned"
            /\ \E now \in ClockChoices :
                  context' = prepare_context(generator, detection_result, now)
            /\ generated_files' = << >>
            /\ UNCHANGED << gen_platforms, trace >>
       ELSE \E mkdir_ok \in (IF cmd = "init" \/ faults >= MaxFaults
                              THEN {TRUE} ELSE BOOLEAN) :
              IF mkdir_ok
              THEN /\ gen_platforms' = EffectivePlatforms(call_args)
                   /\ \E now \in ClockChoices :
                         context' = prepare_context(generator, detection_result, now)
                   /\ generated_files' = << >>
                   /\ gen_pc' = "loop"
                   /\ UNCHANGED << trace, faults >>
              ELSE /\ gen_pc' = "raised"
                   /\ trace' = Append(trace, Event("raise", "generate", "OSError"))
                   /\ faults' = faults + 1
                   /\ UNCHANGED << gen_platforms, generated_files, context >>
    /\ (~ AcceptsCall(generator, call_args.n) \/ generator = "java") => UNCHANGED faults
    /\ UNCHANGED cliVars
    /\ UNCHANGED dispatchVars
    /\ UNCHANGED << generator, call_args, plat_idx, extra_idx, templates, fs >>

-----------------------------------------------------------------------------
(* core/base_generator.py: render_template, write_file,                    *)
(* generate_file_from_template, against the environment                    *)

\* What a template of templates_dir does in this run: it is missing
\* (TemplateNotFound), it exists but rendering it raises, or it renders.  The
\* first use in a run settles it; the Jinja environment is the same afterwards.
TemplateStates == { "ok", "missing", "broken" }

TemplateChoices(t) ==
    IF t \in DOMAIN templates THEN { templates[t] } ELSE TemplateStates

\* The text a template yields for a context (template.render(**context)): the
\* templates print the fields of the context, the generation timestamp among
\* them.
Render(t, ctx) == [template |-> t, context |-> ctx]

\* write_file(): mkdir of the parent, then write_text.  It succeeds, or it
\* raises; when it raises the file is as before, or was opened and truncated.
WriteChoices == { "ok", "fail_untouched", "fail_truncated" }

\* What a path of the output directory holds when it is no complete file
Directory == [kind |-> "dir"]
Truncated == [kind |-> "truncated"]

\* mutant: write_file() first saves a copy of what it is about to replace
FileAfterWrite_keeps_backup(path, w, text) ==
    CASE w = "ok"             -> Put(Put(fs, path, text), path \o ".orig", text)
      [] w = "fail_truncated" -> Put(fs, path, Truncated)
      [] OTHER                -> fs

FileAfterWrite(path, w, text) ==
    CASE w = "ok"             -> Put(fs, path, text)
      [] w = "fail_truncated" -> Put(fs, path, Truncated)
      [] OTHER                -> fs

MkDir(f, dir) == IF dir = "" THEN f ELSE Put(f, dir, Directory)

\* mutant: the output file is opened for writing before the template is rendered
generate_file_from_template_opens_first(t, path) ==
    { [result    |-> "render_failed",
       templates |-> Put(templates, t, st),
       fs        |-> Put(fs, path, Truncated),
       raised    |-> IF t \in DOMAIN templates THEN 0 ELSE 1]
      : st \in TemplateChoices(t) \ {"ok"} }
    \cup
    { [result    |-> IF w = "ok" THEN "ok" ELSE "write_failed",
       templates |-> Put(templates, t, "ok"),
       fs        |-> MkDir(FileAfterWrite(path, w, Render(t, context)), ParentDir(path)),
       raised    |-> IF w = "ok" THEN 0 ELSE 1]
      : st \in TemplateChoices(t) \cap {"ok"}, w \in WriteChoices }

\* generate_file_from_template(template, context, path): render, then write.
\* The set of ways the call can end: [result, templates, fs].
generate_file_from_template(t, path) ==
    { [result    |-> "render_failed",
       templates |-> Put(templates, t, st),
       fs        |-> fs,
       raised    |-> IF t \in DOMAIN templates THEN 0 ELSE 1]
      : st \in TemplateChoices(t) \ {"ok"} }
    \cup
    { [result    |-> IF w = "ok" THEN "ok" ELSE "write_failed",
       templates |-> Put(templates, t, "ok"),
       fs        |-> MkDir(FileAfterWrite(path, w, Render(t, context)), ParentDir(path)),
       raised    |-> IF w = "ok" THEN 0 ELSE 1]
      : st \in TemplateChoices(t) \cap {"ok"}, w \in WriteChoices }

\* The body of the try of the platform loop (e.g. python/generator.py:78-88):
\* platform_output.parent.mkdir(), then generate_file_from_template().
PlatformAttempt(config) ==
    LET dir == ParentDir(config.output)
        made == { [result    |-> r.result,
                   templates |-> r.templates,
                   fs        |-> MkDir(r.fs, dir),
                   raised    |-> r.raised]
                  : r \in generate_file_from_template(config.template, config.output) }
    IN IF dir = "" THEN made
       ELSE made \cup { [result |-> "mkdir_failed", templates |-> templates,
                         fs |-> fs, raised |-> 1] }

\* One additional file: PythonGenerator looks for the template file first and
\* does nothing when it is missing.
ExtraAttempt(extra) ==
    LET guardMiss == { [result    |-> "no_template",
                        templates |-> Put(templates, extra.template, "missing"),
                        fs        |-> fs,
                        raised    |-> 0]
                       : st \in TemplateChoices(extra.template) \cap {"missing"} }
        tried == generate_file_from_template(extra.template, extra.output)
    IN IF extra.guarded
       THEN guardMiss \cup { r \in tried : r.templates[extra.template] # "missing" }
       ELSE tried

\* mutant: the entry is recorded before the file is generated
RecordsEntry_before_generating(result) == TRUE

\* generated_files[key] = str(path) is reached only when nothing raised before.
RecordsEntry(result) == result = "ok"

\* mutant: the try of the loop body covers the mkdir only; a failure of
\* generate_file_from_template leaves generate() by the exception
AfterPlatform_uncaught(result) ==
    IF result \in { "render_failed", "write_failed" } THEN "raised" ELSE "loop"

\* mutant: the handler leaves the loop (break) after the first failure
AfterPlatform_break(result) ==
    IF result \in { "mkdir_failed", "render_failed", "write_failed" } THEN "extras" ELSE "loop"

\* `except Exception as e: print(...)` inside the for loop: the loop goes on.
AfterPlatform(result) == "loop"

\* mutant: the loop is left (break) at a platform the map does not know
AfterUnknownPlatform_break == "extras"

\* `if platform not in template_map: print(...); continue`
AfterUnknownPlatform == "loop"

\* `except Exception as e: print(...)` of _generate_additional_files.
AfterExtra(result) == "extras"

\* One iteration of `for platform in platforms` (e.g. python/generator.py:70-90).
GeneratePlatform ==
    /\ UNCHANGED utilVars
    /\ gen_pc = "loop"
    /\ plat_idx <= Len(gen_platforms)
    /\ LET platform == gen_platforms[plat_idx]
           template_map == get_platform_template_map(generator)
       IN IF platform \notin DOMAIN template_map
          THEN /\ trace' = Append(trace, Event("platform", platform, "skipped"))
               /\ plat_idx' = plat_idx + 1
               /\ gen_pc' = AfterUnknownPlatform
               /\ UNCHANGED << generated_files, templates, fs, faults >>
          ELSE \E r \in PlatformAttempt(template_map[platform]) :
                 /\ faults + r.raised <= MaxFaults
                 /\ faults' = faults + r.raised
                 /\ trace' = Append(trace, Event("platform", platform, r.result))
                 /\ templates' = r.templates
                 /\ fs' = r.fs
                 /\ generated_files' =
                        IF RecordsEntry(r.result)
                        THEN Put(generated_files, platform, template_map[platform].output)
                        ELSE generated_files
                 /\ gen_pc' = AfterPlatform(r.result)
                 /\ plat_idx' = plat_idx + 1
    /\ UNCHANGED cliVars
    /\ UNCHANGED dispatchVars
    /\ UNCHANGED << generator, call_args, gen_platforms, extra_idx, context >>

\* The loop is over: self._generate_additional_files(...) is called.
GenerateLoopEnd ==
    /\ UNCHANGED utilVars
    /\ gen_pc = "loop"
    /\ plat_idx > Len(gen_platforms)
    /\ gen_pc' = "extras"
    /\ UNCHANGED trace
    /\ UNCHANGED cliVars
    /\ UNCHANGED dispatchVars
    /\ UNCHANGED << generator, call_args, gen_platforms, plat_idx, extra_idx,
                    generated_files, context, templates, fs, faults >>

\* One file of _generate_additional_files().
GenerateExtra ==
    /\ UNCHANGED utilVars
    /\ gen_pc = "extras"
    /\ extra_idx <= Len(additional_files(generator))
    /\ LET extra == additional_files(generator)[extra_idx]
       IN \E r \in ExtraAttempt(extra) :
            /\ faults + r.raised <= MaxFaults
            /\ faults' = faults + r.raised
            /\ trace' = Append(trace, Event("extra", extra.key, r.result))
            /\ templates' = r.templates
            /\ fs' = r.fs
            /\ generated_files' =
                   IF RecordsEntry(r.result)
                   THEN Put(generated_files, extra.key, extra.output)
                   ELSE generated_files
            /\ gen_pc' = AfterExtra(r.result)
            /\ extra_idx' = extra_idx + 1
    /\ UNCHANGED cliVars
    /\ UNCHANGED dispatchVars
    /\ UNCHANGED << generator, call_args, gen_platforms, plat_idx, context >>

\* `return {'context': context, 'generated_files': generated_files}`
GenerateReturn ==
    /\ UNCHANGED utilVars
    /\ gen_pc = "extras"
    /\ extra_idx > Len(additional_files(generator))
    /\ gen_pc' = "returned"
    /\ UNCHANGED trace
    /\ UNCHANGED cliVars
    /\ UNCHANGED dispatchVars
    /\ UNCHANGED << generator, call_args, gen_platforms, plat_idx, extra_idx,
                    generated_files, context, templates, fs, faults >>

\* The caller of a direct call runs generate() once more with the same
\* arguments, into the same output directory and with the same templates (the
\* __main__ block of python/generator.py calls it twice in a row).  What the
\* first run left is kept in the trace.
GenerateAgain ==
    /\ UNCHANGED utilVars
    /\ cmd = "generate" /\ pc = "generating"
    /\ gen_pc = "returned"
    /\ \A i \in 1..Len(trace) : trace[i][1] # "rerun"
    /\ gen_pc' = "call"
    /\ plat_idx' = 1
    /\ extra_idx' = 1
    /\ trace' = Append(trace, Event("rerun", fs, generated_files))
    /\ UNCHANGED cliVars
    /\ UNCHANGED dispatchVars
    /\ UNCHANGED << generator, call_args, gen_platforms, generated_files, context,
                    templates, fs, faults >>

\* The caller gets control back.  main.py:152-178: init prints the files and
\* returns, or catches the exception, prints "Generation failed" and exits 1.
GenerateEnds ==
    /\ UNCHANGED utilVars
    /\ pc = "generating"
    /\ gen_pc \in { "returned", "raised" }
    /\ IF gen_pc = "returned"
       THEN Exit(0, "Generated")
       ELSE Exit(1, "GenerationFailed")
    /\ UNCHANGED << cmd, project, framework, platforms, requested_platforms, trace >>
    /\ UNCHANGED dispatchVars
    /\ UNCHANGED genVars

-----------------------------------------------------------------------------

Next ==
    \/ InvokeInit
    \/ InvokeDetect
    \/ InvokeGenerate
    \/ ValidatePlatforms
    \/ SelectFrameworks
    \/ TryDetector
    \/ LoopExhausted
    \/ InitCheckDetection
    \/ InitCallGenerate
    \/ GenerateEnter
    \/ GeneratePlatform
    \/ GenerateLoopEnd
    \/ GenerateExtra
    \/ GenerateReturn
    \/ GenerateAgain
    \/ GenerateEnds

Spec == Init /\ [][Next]_vars

-----------------------------------------------------------------------------
(* `detect` on trees with content: each tree is put together from parts,   *)
(* one per file the detectors read.                                        *)

Part(files, text, found, marks) ==
    [files |-> files, text |-> text, found |-> found, marks |-> marks]

Nothing == Part({}, << >>, << >>, {})

\* a root entry nobody reads
Entry(name) == Part({ name }, << >>, << >>, {})

\* a file whose text the detectors parse themselves
TextFile(name, content) == Part({ name }, name :> content, << >>, {})

\* a manifest that is searched: what the patterns capture, which fragments it holds
Manifest(name, found, fragments) ==
    Part({ name }, name :> "...", found, { << name, fragment >> : fragment \in fragments })

RECURSIVE Compose(_, _, _)
Compose(gate, pkgJson, parts) ==
    IF parts = << >> THEN Tree(gate, pkgJson, << >>, << >>, {})
    ELSE LET rest == Compose(gate, pkgJson, Tail(parts))
             part == Head(parts)
         IN Tree(rest.files \cup part.files, pkgJson, part.text @@ rest.text,
                 part.found @@ rest.found, part.marks \cup rest.marks)

PythonEvidence ==
    { Compose({ "*.py" }, "absent", << pin, req, runtime, pyproject, setup, lock >>) :
        pin \in { Nothing, TextFile(".python-version", ""),
                  TextFile(".python-version", "3.11.4\n"), TextFile(".python-version", "3") },
        req \in { Nothing, TextFile("requirements.txt", "flask==2.3.0"),
                  TextFile("requirements-dev.txt", "Django>=4\nfastapi") },
        runtime \in { Nothing,
                      Manifest("runtime.txt", << "runtime.txt", "python-(d+.d+(.d+)?)" >> :> "3.9.1", {}),
                      Manifest("runtime.txt", << >>, {}) },
        pyproject \in { Nothing,
                        Manifest("pyproject.toml", << "pyproject.toml", "python = (d+.d+)" >> :> "3.10",
                                 { "[tool.poetry]", "\"Flask\"", "[tool.pytest.ini_options]" }),
                        Manifest("pyproject.toml", << >>, {}) },
        setup \in { Nothing,
                    Manifest("setup.py", << "setup.py", "python_requires = (d+.d+)" >> :> "3.8", {}) },
        lock \in { Nothing, Entry("Pipfile"), Entry("poetry.lock"),
                   Part({ "poetry.lock", "Pipfile" }, << >>, << >>, {}) } }

\* python trees with and without the signs of pytest
PytestEvidence ==
    { Compose({ "*.py" }, "absent", << req, pyproject, tests >>) :
        req \in { Nothing, TextFile("requirements-dev.txt", "pytest==7.4.0") },
        pyproject \in { Nothing,
                        Manifest("pyproject.toml", << >>, { "[tool.pytest.ini_options]" }),
                        Manifest("pyproject.toml", << >>, { "\"pytest\"" }) },
        tests \in { Nothing, Entry("pytest.ini"),
                    Manifest("setup.cfg", << >>, { "[pytest]" }),
                    Manifest("setup.cfg", << >>, { "[tool:pytest]" }),
                    Manifest("tests/test_*.py", << >>, { "import unittest" }),
                    Manifest("test/test_*.py", << >>, { "import os", "from pytest import fixture" }) } }

NodeEvidence ==
    { Compose({ "package.json" }, kind, << nvmrc, manifest, lock >>) :
        kind \in EvidencePkgJsonKinds,
        nvmrc \in { Nothing, TextFile(".nvmrc", ""), TextFile(".nvmrc", "v18.17.0\n"),
                    TextFile(".nvmrc", "20") },
        manifest \in { Part({}, << >>, found, { << "package.json", dep >> : dep \in deps }) :
                         found \in { << >>,
                                     << "package.json", "engines.node" >> :> ">=18.0.0",
                                     << "package.json", "engines.node" >> :> "lts/*" },
                         deps \in { {}, { "express", "mocha" }, { "next", "express", "jest" } } },
        lock \in { Nothing, Entry("yarn.lock"), Entry("pnpm-lock.yaml"),
                   Part({ "pnpm-lock.yaml", "yarn.lock", "package-lock.json" }, << >>, << >>, {}) } }

MavenEvidence ==
    { Compose({ "pom.xml" }, "absent", << pom >>) :
        pom \in { Nothing } \cup
                { Manifest("pom.xml", parse @@ properties @@ source @@ version @@ packaging, fragments) :
                    parse \in { << >>, << "pom.xml", "ET.fromstring raises" >> :> "ParseError" },
                    properties \in { << >>,
                                     << "pom.xml", "properties" >> :> "1.8",
                                     << "pom.xml", "properties" >> :> " 11 ",
                                     << "pom.xml", "properties" >> :> "${java.version}" },
                    source \in { << >>, << "pom.xml", "<maven.compiler.source>(d+)" >> :> "11" },
                    version \in { << >>, << "pom.xml", "<java.version>(d+)" >> :> "21" },
                    packaging \in { << >>, << "pom.xml", "<packaging>(w+)</packaging>" >> :> "war" },
                    fragments \in { {}, { "spring-boot-starter-web", "junit-jupiter" },
                                    { "JUnit", "<modules>", "<module>" } } } }

GradleScripts(name) ==
    { Manifest(name, source @@ version @@ toolchain, fragments) :
        source \in { << >>, << name, "sourceCompatibility = (d+)" >> :> "1",
                     << name, "sourceCompatibility = (d+)" >> :> "11" },
        version \in { << >>, << name, "JavaVersion.VERSION_(d+)" >> :> "21" },
        toolchain \in { << >>, << name, "JavaLanguageVersion.of((d+))" >> :> "8" },
        fragments \in { {}, { "org.springframework.boot", "bootWar", "spock" },
                        { "id 'war'", "testng" } } }

GradleEvidence ==
    { Compose(gate, "absent", << script, settings >>) :
        gate \in { { "build.gradle" }, { "build.gradle.kts" } },
        script \in { Nothing } \cup GradleScripts("build.gradle") \cup GradleScripts("build.gradle.kts"),
        settings \in { Nothing, Entry("settings.gradle") } }

JavaEvidence == { Compose({ "*.java" }, "absent", << >>) }

DotNetEvidence ==
    { Compose(gate, "absent", << csproj >>) :
        gate \in { { "*.csproj" }, { "*.sln" }, { "*.csproj", "*.sln" } },
        csproj \in { Nothing } \cup
                   { Manifest("*.csproj", target @@ core, fragments) :
                       target \in { << >>, << "*.csproj", "<TargetFramework>net(d+.d+)" >> :> "6.0" },
                       core \in { << >>, << "*.csproj", "<TargetFramework>netcoreapp(d+.d+)" >> :> "3.1" },
                       fragments \in { {}, { "Microsoft.NET.Sdk.Web" },
                                       { "NUnit", "<OutputType>Library</OutputType>" },
                                       { "Microsoft.AspNetCore.Components.WebAssembly" } } } }

\* A manifest part is only kept where its file is part of the tree.
EvidenceProjects ==
    { p \in PythonEvidence \cup PytestEvidence \cup NodeEvidence \cup MavenEvidence \cup GradleEvidence
             \cup JavaEvidence \cup DotNetEvidence :
        /\ DOMAIN p.text \subseteq p.files
        /\ \A k \in DOMAIN p.found : k[1] \in p.files
        /\ \A m \in p.marks : m[1] \in p.files
        /\ p.pkgJson \notin { "object", "bad_engines" } =>
               \A k \in DOMAIN p.found \cup p.marks : k[1] # "package.json" }

\* `detect <path>` was invoked on such a tree (the state InvokeDetect leaves)
InitDetect ==
    /\ cmd = "detect"
    /\ pc = "select"
    /\ project \in EvidenceProjects
    /\ framework \in FrameworkOptions
    /\ platforms = << >>
    /\ requested_platforms = << >>
    /\ frameworks_to_try = << >>
    /\ fw_idx = 1
    /\ detection_result = None
    /\ detected_framework = NoOption
    /\ exit_code = Running
    /\ outcome = ""
    /\ trace = << >>
    /\ generator = NoOption
    /\ call_args = NoCall
    /\ gen_pc = "idle"
    /\ gen_platforms = << >>
    /\ plat_idx = 1
    /\ extra_idx = 1
    /\ generated_files = << >>
    /\ context = None
    /\ templates = << >>
    /\ fs = << >>
    /\ faults = 0
    /\ util_call = NoUtilCall
    /\ util_ret = NotReturned
    /\ par = << >>
    /\ disk = << >>

NextDetect ==
    \/ SelectFrameworks
    \/ TryDetector
    \/ LoopExhausted

SpecDetect == InitDetect /\ [][NextDetect]_vars

-----------------------------------------------------------------------------
(* Direct calls of the helpers of BaseDetector (and of the legacy          *)
(* ProjectDetector), one call per behaviour, its argument drawn in the     *)
(* initial state.                                                          *)

VersionAlphabet == { "1", "2", "3", "." }
VersionStrings == StringsUpTo(VersionAlphabet, MaxVersionLen)

ContentAlphabet == { "a", "B", " ", "#", "-", "r", "=", "<", "\n" }
ContentStrings == StringsUpTo(ContentAlphabet, MaxContentLen)

\* What the path a reader is asked about can be:
\*   "missing"          no such entry
\*   "regular"          a readable UTF-8 file (for rglob: a tree that holds a match)
\*   "unreadable"       a file, or a subdirectory on the way, without read permission
\*   "non_utf8"         a readable file whose bytes are not UTF-8
\*   "symlink_loop"     a symbolic link that leads back to itself
\*   "unsearchable_dir" an entry of a directory the user may not search
PathStates == { "missing", "regular", "unreadable", "non_utf8", "symlink_loop",
                "unsearchable_dir" }

Readers == { "file_exists", "read_file", "has_files_with_extension" }

\* pathlib.Path.exists(): stat() errors ENOENT, ENOTDIR, EBADF and ELOOP give
\* False, every other OSError (EACCES) is raised
Path_exists(st) ==
    CASE st = "unsearchable_dir" -> Raised
      [] st \in { "missing", "symlink_loop" } -> Returned(FALSE)
      [] OTHER -> Returned(TRUE)

\* pathlib.Path.read_text()
Path_read_text(st) == IF st = "regular" THEN Returned("text") ELSE Raised

\* pathlib.Path.rglob(pattern), as a list: scandir errors of the walk are
\* swallowed by pathlib, file contents are not looked at
Path_rglob(st) == IF st \in { "regular", "non_utf8" } THEN Returned(TRUE) ELSE Returned(FALSE)

\* BaseDetector.file_exists(filename): no exception handler
BaseDetector_file_exists(st) == Path_exists(st)

\* BaseDetector.read_file(filename): `except Exception: pass`, then `return ""`
BaseDetector_read_file(st) ==
    IF Path_exists(st) = Raised THEN Returned("")
    ELSE IF ~ Path_exists(st).value THEN Returned("")
    ELSE IF Path_read_text(st) = Raised THEN Returned("")
    ELSE Path_read_text(st)

\* BaseDetector.has_files_with_extension(extension): no exception handler
BaseDetector_has_files_with_extension(st) == Path_rglob(st)

\* The framework values a descriptor is given to _prepare_context() with:
\* None, the empty string, names of the lookup tables (one in capitals) and
\* names no table has.
PortFrameworks ==
    { Null, "", "flask", "Flask", "django", "tornado", "aiohttp", "bottle",
      "express", "nextjs", "spring-boot", "jakarta-ee", "aspnetcore", "efcore" }

\* a descriptor with that framework, and one without the key
PortDescriptors ==
    { [language |-> "any", framework |-> fw] : fw \in PortFrameworks }
    \cup { [language |-> "any"] }

UtilCalls ==
    [fn : { "normalize_version", "_normalize_version" }, arg : VersionStrings]
    \cup [fn : { "parse_dependencies_from_file" }, arg : ContentStrings]
    \cup [fn : Readers, arg : PathStates]
    \cup [fn : { "_prepare_context" }, arg : [g : Generators, d : PortDescriptors]]

InitUtil ==
    /\ cmd = "util"
    /\ pc = "idle"
    /\ project = EmptyProject
    /\ framework = NoOption
    /\ platforms = << >>
    /\ requested_platforms = << >>
    /\ frameworks_to_try = << >>
    /\ fw_idx = 1
    /\ detection_result = None
    /\ detected_framework = NoOption
    /\ exit_code = Running
    /\ outcome = ""
    /\ trace = << >>
    /\ generator = NoOption
    /\ call_args = NoCall
    /\ gen_pc = "idle"
    /\ gen_platforms = << >>
    /\ plat_idx = 1
    /\ extra_idx = 1
    /\ generated_files = << >>
    /\ context = None
    /\ templates = << >>
    /\ fs = << >>
    /\ faults = 0
    /\ util_call \in UtilCalls
    /\ util_ret = NotReturned
    /\ par = << >>
    /\ disk = << >>

mainVars == << cmd, pc, project, framework, platforms, requested_platforms,
               frameworks_to_try, fw_idx, detection_result, detected_framework,
               exit_code, outcome, generator, call_args, gen_pc, gen_platforms,
               plat_idx, extra_idx, generated_files, context, templates, fs, faults >>

UtilReturns(value) ==
    /\ util_ret' = Returned(value)
    /\ trace' = Append(trace, Event(util_call.fn, util_call.arg, value))
    /\ UNCHANGED util_call
    /\ UNCHANGED parVars
    /\ UNCHANGED mainVars

\* BaseDetector.normalize_version(version)
NormalizeVersion ==
    /\ cmd = "util" /\ util_ret = NotReturned
    /\ util_call.fn = "normalize_version"
    /\ UtilReturns(normalize_version(util_call.arg))

\* ProjectDetector._normalize_version(version)
LegacyNormalizeVersion ==
    /\ cmd = "util" /\ util_ret = NotReturned
    /\ util_call.fn = "_normalize_version"
    /\ UtilReturns(ProjectDetector_normalize_version(util_call.arg))

\* The caller normalizes what a first call returned.
NormalizeAgain ==
    /\ cmd = "util" /\ util_ret # NotReturned
    /\ util_call.fn \in { "normalize_version", "_normalize_version" }
    /\ Len(trace) = 1
    /\ util_call' = [util_call EXCEPT !.arg = util_ret.value]
    /\ util_ret' = NotReturned
    /\ UNCHANGED trace
    /\ UNCHANGED parVars
    /\ UNCHANGED mainVars

\* BaseDetector.parse_dependencies_from_file(filename) on a file with this content
ParseDependenciesFromFile ==
    /\ cmd = "util" /\ util_ret = NotReturned
    /\ util_call.fn = "parse_dependencies_from_file"
    /\ UtilReturns(parse_dependencies(util_call.arg))

ReaderEnds(result) ==
    /\ util_ret' = result
    /\ trace' = Append(trace, Event(util_call.fn, util_call.arg, result))
    /\ UNCHANGED util_call
    /\ UNCHANGED parVars
    /\ UNCHANGED mainVars

FileExists ==
    /\ cmd = "util" /\ util_ret = NotReturned
    /\ util_call.fn = "file_exists"
    /\ ReaderEnds(BaseDetector_file_exists(util_call.arg))

ReadFile ==
    /\ cmd = "util" /\ util_ret = NotReturned
    /\ util_call.fn = "read_file"
    /\ ReaderEnds(BaseDetector_read_file(util_call.arg))

HasFilesWithExtension ==
    /\ cmd = "util" /\ util_ret = NotReturned
    /\ util_call.fn = "has_files_with_extension"
    /\ ReaderEnds(BaseDetector_has_files_with_extension(util_call.arg))

\* generator._prepare_context(detection_result, project_path) of the
\* generator class util_call.arg.g (add_base_context and the update of
\* JavaGenerator.generate for java)
PrepareContext ==
    /\ cmd = "util" /\ util_ret = NotReturned
    /\ util_call.fn = "_prepare_context"
    /\ UtilReturns(prepare_context(util_call.arg.g, util_call.arg.d, 0))

NextUtil ==
    \/ PrepareContext
    \/ NormalizeVersion
    \/ LegacyNormalizeVersion
    \/ NormalizeAgain
    \/ ParseDependenciesFromFile
    \/ FileExists
    \/ ReadFile
    \/ HasFilesWithExtension

SpecUtil == InitUtil /\ [][NextUtil]_vars

-----------------------------------------------------------------------------
(* Two invocations side by side: `init` or `detect` on two project          *)
(* directories, by two threads or processes.  Each invocation has its own   *)
(* locals (main.py:63-152 and the locals of generate()); what they share is *)
(* the file system.  A step is one read or one write of the file system.    *)

ParIds == { 1, 2 }

\* project_path = Path(path).resolve() of each invocation: two directories
ParPaths == << "/work/a", "/work/b" >>

ParCommands == { "init", "detect" }

ParProjects ==
    { FlaskProject,
      Tree({ "package.json" }, "object", << >>, << >>, {}),
      Tree({ "*.java" }, "absent", << >>, << >>, {}),
      EmptyProject }

\* --platforms values that pass the validation of init
ParPlatformLists == { << "jenkins" >>, << "github", "gitlab" >> }

\* The template directories: complete; without the files of
\* _generate_additional_files(); with a Jenkinsfile.j2 that does not render.
ParTemplateDirs == { "complete", "no_extras", "broken_jenkins" }

TemplateState(dir, t) ==
    CASE dir = "no_extras" /\ t \in { "Dockerfile.j2", "docker-compose.yml.j2", "README.md.j2" } -> "missing"
      [] dir = "broken_jenkins" /\ t = "Jenkinsfile.j2" -> "broken"
      [] OTHER -> "ok"

\* The locals of an invocation before its first step.
ParLocals(command, platform_list) ==
    [command |-> command, requested_platforms |-> platform_list, pc |-> "loop",
     fw_idx |-> 1, detection_result |-> None, detected_framework |-> NoOption,
     work |-> << >>, idx |-> 1, content |-> None, context |-> None,
     generated_files |-> << >>]

InitPar ==
    /\ cmd = "par"
    /\ pc = "idle"
    /\ project = EmptyProject
    /\ framework = NoOption
    /\ platforms = << >>
    /\ requested_platforms = << >>
    /\ frameworks_to_try = << >>
    /\ fw_idx = 1
    /\ detection_result = None
    /\ detected_framework = NoOption
    /\ exit_code = Running
    /\ outcome = ""
    /\ trace = << >>
    /\ generator = NoOption
    /\ call_args = NoCall
    /\ gen_pc = "idle"
    /\ gen_platforms = << >>
    /\ plat_idx = 1
    /\ extra_idx = 1
    /\ generated_files = << >>
    /\ context = None
    /\ templates = << >>
    /\ fs = << >>
    /\ faults = 0
    /\ util_call = NoUtilCall
    /\ util_ret = NotReturned
    /\ par \in [ParIds -> { ParLocals(c, l) : c \in ParCommands, l \in ParPlatformLists }]
    /\ \E dir \in ParTemplateDirs, trees \in [Range(ParPaths) -> ParProjects] :
          disk = [templates |-> dir, trees |-> trees,
                  out |-> [d \in Range(ParPaths) |-> << >>]]

\* what a step of an invocation leaves alone
ParFrame ==
    /\ cmd = "par"
    /\ UNCHANGED << util_call, util_ret, trace >>
    /\ UNCHANGED mainVars

\* mutant: generated_files is one dict of the module, used by every call
FilesOwner_shared(i) == 1

\* `generated_files = {}` (e.g. maven/generator.py:71): a dict of the call
FilesOwner(i) == i

\* The files generate() attempts, in order: the requested platforms that are
\* keys of the template map, then the additional files.
Work(g, platform_list) ==
    LET template_map == get_platform_template_map(g)
        known == SelectSeq(platform_list, LAMBDA x : x \in DOMAIN template_map)
    IN [j \in 1..Len(known) |->
           [key |-> known[j], template |-> template_map[known[j]].template,
            output |-> template_map[known[j]].output, guarded |-> FALSE]]
       \o additional_files(g)

\* One iteration of the loop over the registry, main.py:92-106 and 226-239.
ParTryDetector(i) ==
    /\ ParFrame
    /\ par[i].pc = "loop"
    /\ par[i].fw_idx <= Len(AVAILABLE_FRAMEWORKS)
    /\ LET fw_name == AVAILABLE_FRAMEWORKS[par[i].fw_idx]
           result == Detect(fw_name, disk.trees[ParPaths[i]])
       IN par' = [par EXCEPT ![i] =
               IF result = Raised THEN [@ EXCEPT !.pc = "crashed"]
               ELSE IF result # None
               THEN [@ EXCEPT !.detection_result = result,
                              !.detected_framework = fw_name,
                              !.pc = IF par[i].command = "init" THEN "enter" ELSE "returned"]
               ELSE [@ EXCEPT !.fw_idx = @ + 1]]
    /\ UNCHANGED disk

\* The loop ran out: main.py:108-113 and 241-243.
ParLoopExhausted(i) ==
    /\ ParFrame
    /\ par[i].pc = "loop"
    /\ par[i].fw_idx > Len(AVAILABLE_FRAMEWORKS)
    /\ par' = [par EXCEPT ![i].pc = "returned"]
    /\ UNCHANGED disk

\* generator.generate(detection_result, project_path, requested_platforms)
\* up to the platform loop; the project directory exists.
ParGenerateEnter(i) ==
    /\ ParFrame
    /\ par[i].pc = "enter"
    /\ LET g == par[i].detected_framework
       IN IF ~ AcceptsCall(g, 3)
          THEN par' = [par EXCEPT ![i].pc = "raised"]
          ELSE par' = [[par EXCEPT ![i] =
                           [@ EXCEPT !.pc = "render",
                                     !.work = Work(g, par[i].requested_platforms),
                                     !.context = prepare_context(g, par[i].detection_result, 0)]]
                       EXCEPT ![FilesOwner(i)].generated_files = << >>]
    /\ UNCHANGED disk

\* render_template() of the next file: reads the template directory.
ParRender(i) ==
    /\ ParFrame
    /\ par[i].pc = "render"
    /\ par[i].idx <= Len(par[i].work)
    /\ LET item == par[i].work[par[i].idx]
       IN IF TemplateState(disk.templates, item.template) = "ok"
          THEN par' = [par EXCEPT ![i] =
                          [@ EXCEPT !.content = Render(item.template, par[i].context),
                                    !.pc = "write"]]
          ELSE par' = [par EXCEPT ![i].idx = @ + 1]
    /\ UNCHANGED disk

\* write_file() of what was rendered, below the invocation's own directory,
\* and the entry of generated_files.
ParWrite(i) ==
    /\ ParFrame
    /\ par[i].pc = "write"
    /\ LET item == par[i].work[par[i].idx]
           dir == ParPaths[i]
       IN /\ disk' = [disk EXCEPT !.out[dir] = Put(@, item.output, par[i].content)]
          /\ par' = [[par EXCEPT ![i] =
                        [@ EXCEPT !.pc = "render", !.idx = @ + 1, !.content = None]]
                     EXCEPT ![FilesOwner(i)].generated_files =
                                Put(@, item.key, << dir, item.output >>)]

\* `return {'context': context, 'generated_files': generated_files}`
ParGenerateReturn(i) ==
    /\ ParFrame
    /\ par[i].pc = "render"
    /\ par[i].idx > Len(par[i].work)
    /\ par' = [par EXCEPT ![i].pc = "returned"]
    /\ UNCHANGED disk

NextPar ==
    \E i \in ParIds :
        \/ ParTryDetector(i)
        \/ ParLoopExhausted(i)
        \/ ParGenerateEnter(i)
        \/ ParRender(i)
        \/ ParWrite(i)
        \/ ParGenerateReturn(i)

SpecPar == InitPar /\ [][NextPar]_vars

-----------------------------------------------------------------------------
(* Reading the trace *)

OfKind(kind) == SelectSeq(trace, LAMBDA e : e[1] = kind)

\* Where the run of generate() under way (or the last one) starts in the trace.
RunStart ==
    LET starts == { i \in 1..Len(trace) : trace[i][1] \in {"generate", "rerun"} }
    IN IF starts = {} THEN 0 ELSE CHOOSE i \in starts : \A j \in starts : j <= i

RunTrace == SubSeq(trace, RunStart + 1, Len(trace))

DetectEvents == OfKind("detect")
PlatformEvents == SelectSeq(RunTrace, LAMBDA e : e[1] = "platform")
ExtraEvents == SelectSeq(RunTrace, LAMBDA e : e[1] = "extra")

\* The dispatcher loops over the whole registry (no ecosystem was forced).
Unforced == \E i \in 1..Len(trace) : trace[i][1] = "check_framework" /\ trace[i][3] = "all"

\* The detection phase of a command has ended and the tree is still in view.
ClassificationOver ==
    \/ cmd = "init" /\ pc \in {"check", "generate"}
    \/ cmd = "init" /\ pc = "done" /\ outcome \in {"NoEcosystemDetected", "Crash"}
    \/ cmd = "detect" /\ pc = "done" /\ outcome # "UnknownEcosystem"

IsDescriptor(r) == r # None /\ r # Raised

-----------------------------------------------------------------------------
(* C1 *)

RegistryOrder == << "python", "node", "maven", "gradle", "java", "dotnet" >>

\* The position in the fixed order of the first classifier whose detect() does
\* not return None on the tree p (0 when all return None).
FirstNonNone(p) ==
    LET hits == { i \in 1..Len(RegistryOrder) : Detect(RegistryOrder[i], p) # None }
    IN IF hits = {} THEN 0 ELSE CHOOSE i \in hits : \A j \in hits : i <= j

\* C1: with no forced ecosystem the classifiers are invoked in the order
\* python, node, maven, gradle, java, dotnet; every classifier invoked before
\* the last one returned None (nothing is invoked after a match); at most one
\* (ecosystem, descriptor) pair is produced; and when the detection phase is
\* over the pair is that of the first classifier in the order whose detect()
\* returns a descriptor, all classifiers before it having been invoked.
C1_FirstMatchInRegistryOrder ==
    Unforced =>
        /\ Len(DetectEvents) <= Len(RegistryOrder)
        /\ \A i \in 1..Len(DetectEvents) :
              /\ DetectEvents[i][2] = RegistryOrder[i]
              /\ i < Len(DetectEvents) => DetectEvents[i][3] = "none"
        /\ Cardinality({ i \in 1..Len(DetectEvents) : DetectEvents[i][3] = "descriptor" }) <= 1
        /\ (detected_framework # NoOption) =>
              /\ Len(DetectEvents) > 0
              /\ DetectEvents[Len(DetectEvents)] = Event("detect", detected_framework, "descriptor")
        /\ ClassificationOver =>
              LET k == FirstNonNone(project)
              IN IF k # 0 /\ IsDescriptor(Detect(RegistryOrder[k], project))
                 THEN /\ detected_framework = RegistryOrder[k]
                      /\ detection_result = Detect(RegistryOrder[k], project)
                      /\ Len(DetectEvents) = k
                 ELSE /\ detected_framework = NoOption
                      /\ detection_result = None

\* A Maven tree that Gradle and the dotnet classifier would accept too: maven
\* is returned after python and node said no, and nothing later was invoked.
C1_Witness ==
    /\ Unforced /\ ClassificationOver
    /\ detected_framework = "maven"
    /\ project.files = { "pom.xml", "build.gradle", "*.sln" }
    /\ Len(DetectEvents) = 3

-----------------------------------------------------------------------------
(* C2 *)

HasBuildManifest(p) ==
    \/ file_exists(p, "pom.xml")
    \/ file_exists(p, "build.gradle")
    \/ file_exists(p, "build.gradle.kts")

BuildToolJavaProject(p) == HasBuildManifest(p) /\ has_files_with_extension(p, "java")

\* C2 as claimed: a project with a build-tool manifest at its root and .java
\* files that gets classified is classified as maven or gradle, whatever
\* else the tree holds.
C2_Original ==
    (Unforced /\ ClassificationOver /\ BuildToolJavaProject(project)
        /\ detected_framework # NoOption)
    => detected_framework \in { "maven", "gradle" }

\* C2 amended: such a project is never classified by the generic java
\* classifier, forced or not; and with no forced ecosystem it is classified
\* as maven (pom.xml present) or else gradle whenever no classifier earlier in
\* the order accepts the tree, that is when it holds no .py file and no
\* package.json.
C2_BuildToolBeforeJavaFallback ==
    (ClassificationOver /\ BuildToolJavaProject(project)) =>
        /\ detected_framework # "java"
        /\ (Unforced /\ ~ has_files_with_extension(project, "py")
                     /\ ~ file_exists(project, "package.json"))
           => detected_framework =
                 (IF file_exists(project, "pom.xml") THEN "maven" ELSE "gradle")

\* An unforced run on a Maven tree with .java files, which the dotnet
\* classifier would accept too, ends as maven.
C2_Witness ==
    /\ ClassificationOver /\ Unforced
    /\ project.files = { "pom.xml", "*.java", "*.csproj" }
    /\ detected_framework = "maven"

-----------------------------------------------------------------------------
(* C3 *)

Failures == { "mkdir_failed", "render_failed", "write_failed" }

FailedPlatforms == { i \in 1..Len(PlatformEvents) : PlatformEvents[i][3] \in Failures }

\* C3: once a platform of the list has failed (mkdir, rendering or write),
\* generate() never ends by an exception; the platforms are processed in the
\* order listed; and when the call is over it has returned, every platform
\* listed after the failing one was processed (attempted when the template map
\* knows it), and the Dockerfile of the additional files was attempted.
C3_PlatformFailureIsIsolated ==
    (FailedPlatforms # {}) =>
        /\ gen_pc # "raised"
        /\ \A i \in 1..Len(PlatformEvents) : PlatformEvents[i][2] = gen_platforms[i]
        /\ gen_pc \in {"loop", "extras"} => Len(PlatformEvents) = plat_idx - 1
        /\ pc = "done" =>
              /\ gen_pc = "returned"
              /\ outcome = "Generated"
              /\ Len(PlatformEvents) = Len(gen_platforms)
              /\ \A i \in 1..Len(gen_platforms) :
                    (gen_platforms[i] \in DOMAIN get_platform_template_map(generator))
                    <=> (PlatformEvents[i][3] # "skipped")
              /\ \E j \in 1..Len(ExtraEvents) : ExtraEvents[j][2] = "dockerfile"

\* The first platform failed, the second was generated, the Dockerfile was
\* attempted and generate() has returned.
C3_Witness ==
    /\ pc = "done" /\ gen_pc = "returned"
    /\ Len(PlatformEvents) = 2
    /\ PlatformEvents[1][3] = "render_failed"
    /\ PlatformEvents[2][3] = "ok"
    /\ \E j \in 1..Len(ExtraEvents) : ExtraEvents[j] = Event("extra", "dockerfile", "ok")

-----------------------------------------------------------------------------
(* C4 *)

Exists(path) == path \in DOMAIN fs /\ fs[path] # Directory

\* C4: at every point of generate(), and so when it returns, generated_files
\* has an entry for a platform exactly when an attempt of that platform
\* rendered and wrote its file in this call; the entry is the platform's output
\* path (no error marker); and every recorded path names a file that exists.
C4_EntriesAreTheGeneratedFiles ==
    (gen_pc \in {"loop", "extras", "returned"}) =>
        /\ \A i \in 1..Len(gen_platforms) :
              (gen_platforms[i] \in DOMAIN generated_files)
              <=> (\E j \in 1..Len(PlatformEvents) :
                     PlatformEvents[j] = Event("platform", gen_platforms[i], "ok"))
        /\ \A k \in DOMAIN generated_files :
              /\ Exists(generated_files[k])
              /\ \/ /\ k \in DOMAIN get_platform_template_map(generator)
                    /\ generated_files[k] = get_platform_template_map(generator)[k].output
                 \/ \E j \in 1..Len(additional_files(generator)) :
                       /\ additional_files(generator)[j].key = k
                       /\ additional_files(generator)[j].output = generated_files[k]

\* gitlab failed and jenkins was generated: the returned map holds jenkins only
\* among the platforms.
C4_Witness ==
    /\ gen_pc = "returned"
    /\ gen_platforms = << "gitlab", "jenkins" >>
    /\ PlatformEvents[1][3] = "write_failed"
    /\ "jenkins" \in DOMAIN generated_files
    /\ "gitlab" \notin DOMAIN generated_files

-----------------------------------------------------------------------------
(* C5 *)

AllowList == { "jenkins", "gitlab", "github" }

\* C5: init validates the platforms first (it is the first step of every init
\* run); when a requested identifier is outside {jenkins, gitlab, github} the
\* command is over right after that step with exit code 1, and the forced
\* ecosystem was not checked, no classifier and no generator was invoked, and
\* no file was written.
C5_PlatformsValidatedFirst ==
    (cmd = "init" /\ pc # "validate") =>
        /\ Len(trace) > 0 /\ trace[1][1] = "validate_platforms"
        /\ (\E i \in 1..Len(requested_platforms) : requested_platforms[i] \notin AllowList) =>
              /\ pc = "done" /\ exit_code = 1
              /\ Len(trace) = 1
              /\ fs = << >>
              /\ gen_pc = "idle"

\* An init run with an unknown forced ecosystem on a Python tree that ended on
\* the invalid platform "docker".
C5_Witness ==
    /\ cmd = "init" /\ pc = "done" /\ exit_code = 1
    /\ outcome = "InvalidPlatform"
    /\ framework = "rust"
    /\ project.files = { "*.py" }
    /\ requested_platforms = << "jenkins", "docker" >>

-----------------------------------------------------------------------------
(* C6 *)

NoneInvoked == Len(DetectEvents) = 0 /\ Len(OfKind("generate")) = 0

\* C6 as claimed: whenever --framework is given with a value that is no key of
\* the registry, no classifier and no generator is invoked and no file is
\* written: the command does not get past the selection step, and when it is
\* over (for init: with valid platforms) it has ended with exit code 1 as
\* UnknownEcosystem.
C6_Original ==
    (cmd \in {"init", "detect"} /\ framework # NoOption /\ framework \notin RegistryKeys) =>
        /\ NoneInvoked /\ fs = << >> /\ gen_pc = "idle"
        /\ pc \in {"validate", "select", "done"}
        /\ (pc = "done" /\ outcome # "InvalidPlatform")
              => (exit_code = 1 /\ outcome = "UnknownEcosystem")

\* C6 amended: the same for a non-empty value that is no key of the registry;
\* and the commands never leave the selection step towards the classifiers
\* with such a value.  (The empty string counts as no value given.)
C6_UnknownEcosystemRejected ==
    (cmd \in {"init", "detect"} /\ framework \notin RegistryKeys \cup {NoOption, ""}) =>
        /\ NoneInvoked /\ fs = << >> /\ gen_pc = "idle"
        /\ pc \in {"validate", "select", "done"}
        /\ (pc = "done" /\ outcome # "InvalidPlatform")
              => (exit_code = 1 /\ outcome = "UnknownEcosystem")

\* `detect --framework rust` on a tree the python classifier would accept.
C6_Witness ==
    /\ cmd = "detect" /\ pc = "done"
    /\ framework = "rust"
    /\ outcome = "UnknownEcosystem" /\ exit_code = 1
    /\ has_files_with_extension(project, "py")

-----------------------------------------------------------------------------
(* C7 *)

AllTriedReturnedNone ==
    /\ Len(DetectEvents) > 0
    /\ \A i \in 1..Len(DetectEvents) : DetectEvents[i][3] = "none"

\* C7: when init or detect is over and every classifier it tried returned
\* None, it ended with exit code 1 as NoEcosystemDetected, with no generator
\* called and no file written; and init reaches the call of a generator only
\* with a descriptor that the last classifier tried has returned.
C7_NoMatchEndsWithoutGeneration ==
    /\ (cmd \in {"init", "detect"} /\ pc = "done" /\ AllTriedReturnedNone) =>
          /\ exit_code = 1 /\ outcome = "NoEcosystemDetected"
          /\ Len(OfKind("generate")) = 0
          /\ gen_pc = "idle"
          /\ fs = << >>
    /\ (cmd = "init" /\ pc \in {"generate", "generating"}) =>
          /\ detection_result # None
          /\ DetectEvents[Len(DetectEvents)][3] = "descriptor"

\* An init run over the whole registry on a tree no classifier accepts.
C7_Witness ==
    /\ cmd = "init" /\ pc = "done"
    /\ Unforced
    /\ Len(DetectEvents) = Len(AVAILABLE_FRAMEWORKS)
    /\ AllTriedReturnedNone
    /\ outcome = "NoEcosystemDetected"

-----------------------------------------------------------------------------
(* C8 *)

\* C8: for every ecosystem whose classifier matched, the call
\* generate(detection_result, project_path, requested_platforms) of init
\* returns its result, and init ends as generated, not in "Generation failed".
C8_EveryGeneratorTakesPlatforms ==
    (cmd = "init" /\ pc = "done" /\ detected_framework # NoOption) =>
        /\ gen_pc = "returned"
        /\ outcome = "Generated" /\ exit_code = 0

-----------------------------------------------------------------------------
(* C9 *)

HasPlatformLoop(g) == g # "java"

JenkinsAttempted ==
    /\ Len(PlatformEvents) = 1
    /\ PlatformEvents[1][2] = "jenkins"
    /\ PlatformEvents[1][3] # "skipped"

\* C9 as claimed: generate() given an empty list of platforms has attempted the
\* Jenkins pipeline file when it returns (generators with a platform loop).
C9_Original ==
    (cmd = "generate" /\ gen_pc = "returned" /\ HasPlatformLoop(generator)
        /\ call_args.n = 3 /\ ~ call_args.isNone /\ call_args.list = << >>)
    => JenkinsAttempted

\* C9 amended: generate() of the python, node, maven, gradle and dotnet
\* generators called without platforms, or with None, works on ['jenkins']:
\* when it returns the Jenkins pipeline file is the one platform file attempted,
\* and generated_files has the jenkins entry, with the path of a file that
\* exists, exactly when it was rendered and written.  Called with an empty
\* list it attempts no platform file.
C9_DefaultsToJenkinsWhenOmitted ==
    (cmd = "generate" /\ HasPlatformLoop(generator)
        /\ gen_pc \in {"loop", "extras", "returned"}) =>
        /\ (call_args.n = 2 \/ call_args.isNone) =>
              /\ gen_platforms = << "jenkins" >>
              /\ gen_pc \in {"extras", "returned"} =>
                    /\ JenkinsAttempted
                    /\ ("jenkins" \in DOMAIN generated_files) <=> (PlatformEvents[1][3] = "ok")
                    /\ ("jenkins" \in DOMAIN generated_files) =>
                          (generated_files["jenkins"] = "Jenkinsfile" /\ Exists("Jenkinsfile"))
        /\ (call_args.n = 3 /\ ~ call_args.isNone /\ call_args.list = << >>) =>
              Len(PlatformEvents) = 0

\* NodeGenerator().generate(descriptor, out_dir) has returned with the
\* Jenkinsfile recorded.
C9_Witness ==
    /\ cmd = "generate" /\ generator = "node" /\ gen_pc = "returned"
    /\ call_args.n = 2
    /\ "jenkins" \in DOMAIN generated_files
    /\ PlatformEvents = << Event("platform", "jenkins", "ok") >>

-----------------------------------------------------------------------------
(* C10 *)

DockerfileAttempts == { j \in 1..Len(ExtraEvents) : ExtraEvents[j][2] = "dockerfile" }

\* C10: when generate() of any ecosystem generator returns, the Dockerfile of
\* the additional files was attempted exactly once, after the last platform;
\* and generate() never ends by an exception once the platform loop is over.
C10_DockerfileAttemptedOnce ==
    /\ (gen_pc = "returned") =>
          /\ Cardinality(DockerfileAttempts) = 1
          /\ \A i \in 1..Len(RunTrace) : \A j \in 1..Len(RunTrace) :
                (RunTrace[i][1] = "platform" /\ RunTrace[j][1] = "extra") => i < j
    /\ (gen_pc = "raised") => Len(ExtraEvents) = 0

-----------------------------------------------------------------------------
(* C11 *)

Reran == \E i \in 1..Len(trace) : trace[i][1] = "rerun"

\* The output directory as the first run left it.
FirstRunFs == trace[CHOOSE i \in 1..Len(trace) : trace[i][1] = "rerun"][2]

\* C11: when a second run of generate() with the same descriptor, platforms
\* and templates into the same directory has returned, and nothing failed in
\* either run, every path of the output directory holds what it held after
\* the first run.
C11_RerunByteIdentical ==
    (cmd = "generate" /\ Reran /\ gen_pc = "returned" /\ faults = 0) =>
        /\ DOMAIN fs = DOMAIN FirstRunFs
        /\ \A path \in DOMAIN fs : fs[path] = FirstRunFs[path]

-----------------------------------------------------------------------------
(* C12 *)

Renders(t) == t \in DOMAIN templates /\ templates[t] = "ok"

WriteFailedInRun ==
    \E i \in 1..Len(RunTrace) : RunTrace[i][3] \in { "write_failed", "mkdir_failed" }

\* What generate() of g is to leave for a SET of platforms, given which
\* templates render: the entries of generated_files ...
ExpectedEntries(g, S) ==
    LET template_map == get_platform_template_map(g)
        extras == additional_files(g)
        plats == { k \in S \cap DOMAIN template_map : Renders(template_map[k].template) }
        extra_keys == { extras[j].key : j \in { j \in 1..Len(extras) : Renders(extras[j].template) } }
        ExtraOutput(k) == extras[CHOOSE j \in 1..Len(extras) : extras[j].key = k].output
    IN [ k \in plats \cup extra_keys |->
           IF k \in plats THEN template_map[k].output ELSE ExtraOutput(k) ]

\* ... and the template each output file is rendered from.
TemplateOf(g, path) ==
    LET template_map == get_platform_template_map(g)
        extras == additional_files(g)
        fromMap == { template_map[k].template : k \in { k \in DOMAIN template_map : template_map[k].output = path } }
        fromExtras == { extras[j].template : j \in { j \in 1..Len(extras) : extras[j].output = path } }
    IN CHOOSE t \in fromMap \cup fromExtras : TRUE

\* C12: when generate() returns and no write failed, generated_files and the
\* files of the output directory are determined by the SET of the platforms
\* requested and by which templates render, whatever the order (and the
\* repetitions) of the list: an entry and a file for each requested platform
\* of the template map whose template renders, and for each additional file
\* whose template renders, and nothing else.
C12_OutcomeDependsOnPlatformSet ==
    (cmd = "generate" /\ gen_pc = "returned" /\ HasPlatformLoop(generator)
        /\ ~ WriteFailedInRun) =>
        LET expected == ExpectedEntries(generator, Range(gen_platforms))
        IN /\ generated_files = expected
           /\ { path \in DOMAIN fs : fs[path] # Directory } = Values(expected)
           /\ \A path \in Values(expected) :
                 fs[path] = Render(TemplateOf(generator, path), context)

\* [jenkins, gitlab] with the gitlab template missing: the map holds jenkins
\* and the Dockerfile entry, and not gitlab.
C12_Witness ==
    /\ cmd = "generate" /\ generator = "gradle" /\ gen_pc = "returned"
    /\ gen_platforms = << "jenkins", "gitlab" >>
    /\ "gitlab-ci.yml.j2" \in DOMAIN templates /\ templates["gitlab-ci.yml.j2"] = "missing"
    /\ DOMAIN generated_files = { "jenkins", "dockerfile" }

-----------------------------------------------------------------------------
(* C13 *)

NormalizeCalls ==
    { i \in 1..Len(trace) : trace[i][1] \in { "normalize_version", "_normalize_version" } }

Dots(v) == { i \in 1..Len(v) : Chr(v, i) = "." }

\* the prefix of v that ends before its second dot
UpToSecondDot(v) ==
    LET second == CHOOSE i \in Dots(v) : Cardinality({ j \in Dots(v) : j < i }) = 1
    IN SubSeq(v, 1, second - 1)

\* C13: normalize_version (and the legacy _normalize_version) returns the
\* first two dot-separated components of a version that has at least two of
\* them and the version unchanged otherwise, and normalizing its own result
\* returns that result.
C13_NormalizeVersionIdempotent ==
    \A i \in NormalizeCalls :
        LET v == trace[i][2]
            r == trace[i][3]
        IN /\ Cardinality(Dots(v)) = 0 => r = v
           /\ Cardinality(Dots(v)) = 1 => r = v
           /\ Cardinality(Dots(v)) >= 2 => r = UpToSecondDot(v)
           /\ (i > 1 /\ v = trace[i - 1][3]) => r = v

\* '3.11.2' was normalized to '3.11', and '3.11' was normalized again
C13_Witness ==
    /\ Len(trace) = 2
    /\ trace[1] = Event("normalize_version", "3.11.2", "3.11")
    /\ trace[2] = Event("normalize_version", "3.11", "3.11")

\* '3' comes back unchanged from the legacy helper
C13_WitnessSingle ==
    /\ Len(trace) = 1
    /\ trace[1] = Event("_normalize_version", "3", "3")

-----------------------------------------------------------------------------
(* C14 *)

ParseCalls == { i \in 1..Len(trace) : trace[i][1] = "parse_dependencies_from_file" }

\* the lines of a content: its maximal stretches without a newline
LinesOf(content) ==
    { SubSeq(content, ab[1], ab[2]) : ab \in
        { ab \in (1..(Len(content) + 1)) \X (0..Len(content)) :
            /\ ab[2] >= ab[1] - 1
            /\ ab[1] = 1 \/ Chr(content, ab[1] - 1) = "\n"
            /\ ab[2] = Len(content) \/ Chr(content, ab[2] + 1) = "\n"
            /\ \A i \in ab[1]..ab[2] : Chr(content, i) # "\n" } }

\* empty lines, comment lines and '-r' lines, as the line reads once trimmed
IsSkippedLine(line) ==
    LET t == strip(line)
    IN t = "" \/ Chr(t, 1) = "#" \/ startswith(lower(t), "-r")

\* the trimmed, lowercased part of a line before its first version operator
NameOn(line) == strip(lower(BeforeOperator(line)))

\* C14: parse_dependencies_from_file yields no dependency for empty lines,
\* comment lines and '-r' lines; every other line yields exactly the trimmed,
\* lowercased part before its first = < > ~ !; the empty string is never a
\* dependency.
C14_ParsedDependencies ==
    \A i \in ParseCalls :
        LET content == trace[i][2]
            deps == trace[i][3]
        IN /\ "" \notin deps
           /\ deps = { NameOn(l) : l \in { l \in LinesOf(content) : ~ IsSkippedLine(l) } } \ { "" }

\* 'B=' gave the dependency 'b', the comment line gave none
C14_Witness ==
    /\ util_call.fn = "parse_dependencies_from_file"
    /\ util_call.arg = "B=\n#"
    /\ util_ret = Returned({ "b" })

-----------------------------------------------------------------------------
(* C15 *)

\* C15: the evidence readers file_exists, read_file and
\* has_files_with_extension never raise, whatever the path is (missing,
\* unreadable, not UTF-8, a symbolic link loop, in a directory that may not be
\* searched): they return false or the empty string instead.
C15_ReadersNeverRaise ==
    (cmd = "util" /\ util_call.fn \in Readers) => util_ret # Raised

\* read_file gives the empty string where reading fails
C15_ReadFileIsSafe ==
    (cmd = "util" /\ util_call.fn = "read_file" /\ util_ret # NotReturned) =>
        /\ util_ret # Raised
        /\ util_call.arg # "regular" => util_ret = Returned("")

C15_ReadFileWitness ==
    /\ cmd = "util" /\ util_call = [fn |-> "read_file", arg |-> "unsearchable_dir"]
    /\ util_ret = Returned("")

-----------------------------------------------------------------------------
(* C16 *)

\* the gate of each classifier: the condition under which detect() goes on
\* to assemble a descriptor
GatePasses(fw_name, p) ==
    CASE fw_name = "python" -> has_files_with_extension(p, "py")
      [] fw_name = "node"   -> file_exists(p, "package.json")
      [] fw_name = "maven"  -> file_exists(p, "pom.xml")
      [] fw_name = "gradle" -> file_exists(p, "build.gradle") \/ file_exists(p, "build.gradle.kts")
      [] fw_name = "java"   -> has_files_with_extension(p, "java") /\ ~ HasBuildManifest(p)
      [] fw_name = "dotnet" -> has_files_with_extension(p, "csproj") \/ has_files_with_extension(p, "sln")
      [] OTHER -> FALSE

\* C16: once the gate of a classifier passes, its detect() returns a
\* descriptor whatever the evidence files hold; it never raises.
C16_DescriptorOncePastTheGate ==
    \A i \in 1..Len(trace) :
        (trace[i][1] = "detect" /\ GatePasses(trace[i][2], project)) =>
            trace[i][3] = "descriptor"

\* The classifiers other than node do return a descriptor past their gate.
C16_OtherClassifiersDescribe ==
    \A i \in 1..Len(trace) :
        (trace[i][1] = "detect" /\ trace[i][2] # "node" /\ GatePasses(trace[i][2], project)) =>
            /\ trace[i][3] = "descriptor"
            /\ i = Len(trace)
            /\ IsDescriptor(detection_result)

\* a pom.xml that is not well-formed still gave a maven descriptor
C16_OtherClassifiersWitness ==
    /\ Search(project, "pom.xml", "ET.fromstring raises") # NoMatch
    /\ detected_framework = "maven"
    /\ IsDescriptor(detection_result)

-----------------------------------------------------------------------------
(* C17 *)

\* the gate markers of each ecosystem
Markers(fw_name) ==
    CASE fw_name = "python" -> { { "*.py" } }
      [] fw_name = "node"   -> { { "package.json" } }
      [] fw_name = "maven"  -> { { "pom.xml" } }
      [] fw_name = "gradle" -> { { "build.gradle" }, { "build.gradle.kts" } }
      [] fw_name = "java"   -> { { "*.java" } }
      [] fw_name = "dotnet" -> { { "*.csproj" }, { "*.sln" } }
      [] OTHER -> {}

\* a tree that holds one gate marker of the ecosystem, with empty content,
\* and nothing else
MarkerOnly(p, fw_name) ==
    /\ p.files \in Markers(fw_name)
    /\ p.pkgJson \in { "absent", "falsy" }
    /\ DOMAIN p.text = {} /\ DOMAIN p.found = {} /\ p.marks = {}

Described(fw_name) ==
    /\ cmd = "detect" /\ pc = "done"
    /\ detected_framework = fw_name
    /\ IsDescriptor(detection_result)

Has(d, field, value) == field \in DOMAIN d /\ d[field] = value

\* the defaults of the three JVM classifiers without the packaging
JvmDefaults(d) ==
    /\ Has(d, "language", "java")
    /\ Has(d, "framework", Null)
    /\ Has(d, "java_version", "17")
    /\ Has(d, "test_framework", "junit5")

OtherDefaults(fw_name, d) ==
    CASE fw_name = "python" ->
            d = [language |-> "python", framework |-> Null, package_manager |-> "pip",
                 python_version |-> "3.11", test_framework |-> "pytest"]
      [] fw_name = "node" ->
            d = [language |-> "node", framework |-> Null, node_version |-> "20",
                 package_manager |-> "npm", test_framework |-> "jest"]
      [] fw_name = "dotnet" ->
            d = [language |-> "dotnet", framework |-> Null, dotnet_version |-> "8.0",
                 project_type |-> "console", test_framework |-> "xunit",
                 has_solution |-> file_exists(project, "*.sln"), is_web_app |-> FALSE]
      [] OTHER -> TRUE

\* C17 as stated: the descriptor of a marker-only project has the documented
\* defaults, with packaging jar for maven, gradle and java alike.
C17_Original ==
    \A fw_name \in RegistryKeys :
        (Described(fw_name) /\ MarkerOnly(project, fw_name)) =>
            /\ OtherDefaults(fw_name, detection_result)
            /\ fw_name \in { "maven", "gradle", "java" } =>
                   /\ JvmDefaults(detection_result)
                   /\ Has(detection_result, "packaging", "jar")

\* C17: a project that holds only the gate marker of an ecosystem, with
\* empty content, gets a descriptor with the language of that ecosystem and
\* every field at its default: python (framework null, pip, 3.11, pytest),
\* node (framework null, 20, npm, jest), maven and gradle (java 17, junit5,
\* packaging jar), java (java 17, junit5, and no packaging field), dotnet
\* (8.0, console, xunit).
C17_MarkerOnlyGivesDefaults ==
    \A fw_name \in RegistryKeys :
        (Described(fw_name) /\ MarkerOnly(project, fw_name)) =>
            /\ OtherDefaults(fw_name, detection_result)
            /\ fw_name = "maven" =>
                   detection_result =
                       [language |-> "java", build_tool |-> "maven", framework |-> Null,
                        java_version |-> "17", test_framework |-> "junit5",
                        is_multi_module |-> FALSE, packaging |-> "jar"]
            /\ fw_name = "gradle" =>
                   detection_result =
                       [language |-> "java", build_tool |-> "gradle", framework |-> Null,
                        java_version |-> "17", test_framework |-> "junit5",
                        uses_kotlin_dsl |-> file_exists(project, "build.gradle.kts"),
                        is_multi_project |-> FALSE, packaging |-> "jar"]
            /\ fw_name = "java" =>
                   detection_result =
                       [language |-> "java", build_tool |-> "none", framework |-> Null,
                        java_version |-> "17", test_framework |-> "junit5"]

\* a directory with only a .csproj file of no content was described
C17_Witness ==
    /\ Described("dotnet")
    /\ MarkerOnly(project, "dotnet")
    /\ project.files = { "*.csproj" }
    /\ detection_result.project_type = "console"

\* the marker-only tree of every ecosystem is described
C17_WitnessJava ==
    /\ Described("java") /\ MarkerOnly(project, "java")

-----------------------------------------------------------------------------
(* C18 *)

\* the runtime version field of each ecosystem's descriptor
VersionField(fw_name) ==
    CASE fw_name = "python" -> "python_version"
      [] fw_name = "node"   -> "node_version"
      [] fw_name = "dotnet" -> "dotnet_version"
      [] OTHER              -> "java_version"

DefaultVersion(fw_name) ==
    CASE fw_name = "python" -> "3.11"
      [] fw_name = "node"   -> "20"
      [] fw_name = "dotnet" -> "8.0"
      [] OTHER              -> "17"

AllDigits(v) == v # "" /\ \A i \in 1..Len(v) : Chr(v, i) \in Digits

\* "MAJOR.MINOR": two runs of digits with one dot between them
IsMajorMinor(v) ==
    \E i \in 1..Len(v) :
        /\ Chr(v, i) = "."
        /\ AllDigits(SubSeq(v, 1, i - 1))
        /\ AllDigits(SubSeq(v, i + 1, Len(v)))

\* a version pin file that is absent, empty or blank
HoldsNoVersion(p, filename) == strip(read_file(p, filename)) = ""

\* no file of the tree states a version for the ecosystem
NoVersionSignal(p, fw_name) ==
    CASE fw_name = "python" ->
            /\ HoldsNoVersion(p, ".python-version")
            /\ \A k \in DOMAIN p.found : k[1] \notin { "runtime.txt", "pyproject.toml", "setup.py" }
      [] fw_name = "node" ->
            /\ HoldsNoVersion(p, ".nvmrc")
            /\ << "package.json", "engines.node" >> \notin DOMAIN p.found
      [] fw_name = "java" -> TRUE
      [] OTHER -> DOMAIN p.found = {}

\* C18: the descriptor of every accepted project has its runtime version
\* field; the version is a normalized "MAJOR.MINOR" string, and it is the
\* default of the ecosystem when no explicit version signal is found, also
\* when a version pin file exists but is empty.
C18_RuntimeVersionNormalized ==
    \A fw_name \in RegistryKeys :
        Described(fw_name) =>
            /\ VersionField(fw_name) \in DOMAIN detection_result
            /\ IsMajorMinor(detection_result[VersionField(fw_name)])
            /\ NoVersionSignal(project, fw_name) =>
                   detection_result[VersionField(fw_name)] = DefaultVersion(fw_name)

\* The part of C18 that does not depend on the form of the version: the
\* field is there, and it is the default when no version signal is found.
C18_DefaultWithoutSignal ==
    \A fw_name \in RegistryKeys :
        Described(fw_name) =>
            /\ VersionField(fw_name) \in DOMAIN detection_result
            /\ NoVersionSignal(project, fw_name) =>
                   detection_result[VersionField(fw_name)] = DefaultVersion(fw_name)

\* The same with the pin files left aside: the field is always there, and
\* without any version signal and without a pin file it is the default.
C18_DefaultWithoutPinFile ==
    \A fw_name \in RegistryKeys :
        Described(fw_name) =>
            /\ VersionField(fw_name) \in DOMAIN detection_result
            /\ ( /\ NoVersionSignal(project, fw_name)
                 /\ ~ file_exists(project, ".python-version")
                 /\ ~ file_exists(project, ".nvmrc") ) =>
                   detection_result[VersionField(fw_name)] = DefaultVersion(fw_name)

\* an empty .python-version gave the empty version
C18_EmptyPinWitness ==
    /\ Described("python")
    /\ file_exists(project, ".python-version") /\ read_file(project, ".python-version") = ""
    /\ detection_result.python_version = ""

-----------------------------------------------------------------------------
(* C19 *)

\* the directory holds the three files of the scenario, with their content
HoldsFlaskScenario(p) ==
    \A f \in DOMAIN FlaskTexts : file_exists(p, f) /\ read_file(p, f) = FlaskTexts[f]

FlaskDescriptor ==
    [language |-> "python", framework |-> "flask", package_manager |-> "pip",
     python_version |-> "3.11", test_framework |-> "pytest"]

\* `init --platforms jenkins` on the scenario has returned from generate(),
\* the Jenkinsfile and Dockerfile templates rendered and no write failed
FlaskGeneratedForJenkins ==
    /\ cmd = "init" /\ Unforced
    /\ detection_result = FlaskDescriptor
    /\ requested_platforms = << "jenkins" >>
    /\ gen_pc = "returned"
    /\ Renders("Jenkinsfile.j2") /\ Renders("Dockerfile.j2")
    /\ ~ WriteFailedInRun

RegularFiles == { path \in DOMAIN fs : fs[path] # Directory }

C19_ClassifiedWitness ==
    /\ cmd = "init" /\ pc = "check" /\ Unforced
    /\ project = FlaskProject
    /\ detection_result = FlaskDescriptor

-----------------------------------------------------------------------------
(* C20 *)

\* the generators that have a platform template map
MapGenerators == { g \in Generators : HasPlatformLoop(g) }

IsWorkflowPath(path) ==
    startswith(path, ".github/workflows/") /\ Len(path) > Len(".github/workflows/")

\* the file of every platform entry of generated_files is in the output
\* directory at the path the map of the running generator gives
WrittenAtMapPath ==
    \A k \in DOMAIN generated_files :
        (HasPlatformLoop(generator) /\ k \in DOMAIN get_platform_template_map(generator)) =>
            /\ generated_files[k] = get_platform_template_map(generator)[k].output
            /\ Exists(generated_files[k])

\* C20: a platform identifier has one output path, the same in the map of
\* every ecosystem (jenkins: Jenkinsfile, gitlab: .gitlab-ci.yml, github: one
\* workflow file below .github/workflows/, docker: Dockerfile), and the file
\* of a platform is written at exactly that path of the output directory.
C20_OnePathPerPlatform ==
    generator \in MapGenerators =>
        LET template_map == get_platform_template_map(generator)
        IN /\ "jenkins" \in DOMAIN template_map => template_map["jenkins"].output = "Jenkinsfile"
           /\ "gitlab" \in DOMAIN template_map => template_map["gitlab"].output = ".gitlab-ci.yml"
           /\ "github" \in DOMAIN template_map => IsWorkflowPath(template_map["github"].output)
           /\ "docker" \in DOMAIN template_map => template_map["docker"].output = "Dockerfile"
           /\ \A h \in MapGenerators :
                 \A k \in DOMAIN template_map \cap DOMAIN get_platform_template_map(h) :
                     template_map[k].output = get_platform_template_map(h)[k].output
           /\ WrittenAtMapPath

\* What does hold: each file is written at the path of its own generator's
\* map, and the maps agree on jenkins, gitlab and docker.
C20_WrittenWhereTheMapSays ==
    generator \in MapGenerators =>
        LET template_map == get_platform_template_map(generator)
        IN /\ "jenkins" \in DOMAIN template_map => template_map["jenkins"].output = "Jenkinsfile"
           /\ "gitlab" \in DOMAIN template_map => template_map["gitlab"].output = ".gitlab-ci.yml"
           /\ "github" \in DOMAIN template_map => IsWorkflowPath(template_map["github"].output)
           /\ "docker" \in DOMAIN template_map => template_map["docker"].output = "Dockerfile"
           /\ \A h \in MapGenerators :
                 \A k \in (DOMAIN template_map \cap DOMAIN get_platform_template_map(h)) \ { "github" } :
                     template_map[k].output = get_platform_template_map(h)[k].output
           /\ WrittenAtMapPath

\* the node generator wrote the github workflow at its own path
C20_NodeWorkflowWitness ==
    /\ generator = "node" /\ gen_pc = "returned"
    /\ "github" \in DOMAIN generated_files
    /\ generated_files["github"] = ".github/workflows/ci-cd.yml"
    /\ generated_files["github"] # PythonTemplateMap["github"].output

-----------------------------------------------------------------------------
(* C21 *)

\* What an invocation hands back and leaves behind: how it ended, the
\* descriptor, the generated_files of its result (the dict object that
\* generate() returns), and the files of its own directory.
ParOutcome(i) ==
    [pc |-> par[i].pc,
     detection_result |-> par[i].detection_result,
     generated_files |-> par[FilesOwner(i)].generated_files,
     files |-> disk.out[ParPaths[i]]]

\* The same command run alone on the tree p with the template directory
\* tdir, into the directory dir: the first classifier of the registry that
\* does not return None, then every file of the work list whose template
\* renders.
RECURSIVE AloneDetect(_, _)
AloneDetect(p, k) ==
    IF k > Len(AVAILABLE_FRAMEWORKS) THEN [fw |-> NoOption, result |-> None]
    ELSE IF Detect(AVAILABLE_FRAMEWORKS[k], p) # None
    THEN [fw |-> AVAILABLE_FRAMEWORKS[k], result |-> Detect(AVAILABLE_FRAMEWORKS[k], p)]
    ELSE AloneDetect(p, k + 1)

Alone(command, platform_list, p, tdir, dir) ==
    LET found == AloneDetect(p, 1)
        nothing == [pc |-> "returned", detection_result |-> found.result,
                    generated_files |-> << >>, files |-> << >>]
    IN IF found.result = Raised
       THEN [pc |-> "crashed", detection_result |-> None,
             generated_files |-> << >>, files |-> << >>]
       ELSE IF found.result = None \/ command = "detect" THEN nothing
       ELSE IF ~ AcceptsCall(found.fw, 3) THEN [nothing EXCEPT !.pc = "raised"]
       ELSE LET work == Work(found.fw, platform_list)
                done == { j \in 1..Len(work) : TemplateState(tdir, work[j].template) = "ok" }
                last(S) == CHOOSE j \in S : \A k \in S : k <= j
                ctx == prepare_context(found.fw, found.result, 0)
            IN [pc |-> "returned",
                detection_result |-> found.result,
                generated_files |->
                    [key \in { work[j].key : j \in done } |->
                        << dir, work[last({ j \in done : work[j].key = key })].output >>],
                files |->
                    [path \in { work[j].output : j \in done } |->
                        Render(work[last({ j \in done : work[j].output = path })].template, ctx)]]

ParEnded(i) == par[i].pc \in { "returned", "raised", "crashed" }

\* C21: two invocations that run side by side on different project paths
\* and different output directories do not interfere.  Under every
\* interleaving of their reads and writes, an invocation that has ended has
\* returned the result, and left in its own directory the files, of the same
\* command run alone; this stays so while the other invocation goes on.
C21_NoInterference ==
    cmd = "par" =>
        \A i \in ParIds :
            ParEnded(i) =>
                ParOutcome(i) = Alone(par[i].command, par[i].requested_platforms,
                                      disk.trees[ParPaths[i]], disk.templates, ParPaths[i])

\* invocation 1 has returned its files while invocation 2, which has already
\* written into its own directory, holds a rendered file it has yet to write
C21_Witness ==
    /\ cmd = "par"
    /\ par[1].pc = "returned" /\ ParOutcome(1).generated_files # << >>
    /\ par[2].pc = "write" /\ disk.out[ParPaths[2]] # << >>
    /\ ParPaths[1] # ParPaths[2]

-----------------------------------------------------------------------------
(* C22 *)

\* The files the classifiers look at: the names given to file_exists() and
\* read_file(), and the extensions given to rglob().
EvidenceNames ==
    { "requirements.txt", "requirements-dev.txt", "pyproject.toml", "setup.py", "setup.cfg",
      "pytest.ini", "poetry.lock", "Pipfile", ".python-version", "runtime.txt",
      "package.json", ".nvmrc", "pnpm-lock.yaml", "yarn.lock", "package-lock.json",
      "pom.xml", "build.gradle", "build.gradle.kts", "settings.gradle", "settings.gradle.kts" }

EvidenceExtensions == { ".py", ".java", ".csproj", ".sln" }

IsEvidence(path) ==
    \/ path \in EvidenceNames
    \/ \E ext \in EvidenceExtensions : endswith(path, ext)

\* The output paths of a generator: those of its platform map and of its
\* additional files.
OutputPaths(g) ==
    { get_platform_template_map(g)[k].output : k \in DOMAIN get_platform_template_map(g) }
    \cup { additional_files(g)[j].output : j \in 1..Len(additional_files(g)) }

\* the paths whose content a step changes, creates or removes
Touched == { path \in DOMAIN fs \cup DOMAIN fs' :
               \/ path \notin DOMAIN fs
               \/ path \notin DOMAIN fs'
               \/ fs[path] # fs'[path] }

Classifying == cmd \in { "init", "detect" } /\ pc \in { "validate", "select", "loop", "check" }

FrameOfAStep ==
    /\ Classifying => (Touched = {} /\ project' = project)
    /\ DOMAIN fs \subseteq DOMAIN fs'
    /\ \A path \in Touched :
          /\ ~ IsEvidence(path)
          /\ \/ path \in OutputPaths(generator)
             \/ /\ fs'[path] = Directory
                /\ \E out \in OutputPaths(generator) : path = ParentDir(out)

\* C22: no step of the classification (the detect command, the detection
\* phase of init) changes the file system or the project tree; a step of
\* generate() creates or overwrites only files at the output paths of the
\* generator's platform map and additional files (and the directory such a
\* path lies in), removes nothing, and never touches a path that is an
\* evidence file of a classifier.
C22_WritesOnlyOutputs == [][FrameOfAStep]_vars

\* init has classified a project and generate() has returned after writing
\* the Jenkinsfile into the project directory
C22_Witness ==
    /\ cmd = "init" /\ gen_pc = "returned"
    /\ \E i \in 1..Len(trace) : trace[i][1] = "detect" /\ trace[i][3] = "descriptor"
    /\ "Jenkinsfile" \in DOMAIN fs
    /\ "Jenkinsfile" \in OutputPaths(generator)
    /\ ~ IsEvidence("Jenkinsfile")

-----------------------------------------------------------------------------
(* C23 *)

\* the ecosystems that were forced: the events main.py:83 / 221 leaves
ForcedNames == { trace[i][2] : i \in { i \in 1..Len(trace) :
                    trace[i][1] = "check_framework" /\ trace[i][3] = "forced" } }

OnlyInvoked(f) ==
    /\ \A i \in 1..Len(trace) : trace[i][1] = "detect" => trace[i][2] = f
    /\ Cardinality({ i \in 1..Len(trace) : trace[i][1] = "detect" }) <= 1

DescribedBy(f) ==
    /\ detected_framework = f
    /\ IsDescriptor(detection_result)
    /\ detection_result = Detect(f, project)

EndedUndetected ==
    /\ detection_result = None
    /\ detected_framework = NoOption
    /\ pc # "generate"
    /\ pc = "done" => (outcome = "NoEcosystemDetected" /\ exit_code = 1)

Crashed == pc = "done" /\ outcome = "Crash" /\ exit_code = 1 /\ detection_result = None

\* C23: when a known ecosystem is forced, init and detect invoke only the
\* classifier of that ecosystem, and the classification ends either with the
\* descriptor of that ecosystem or with NoEcosystemDetected and exit code 1;
\* never with the descriptor of another ecosystem.
C23_ForcedRunsOnlyThatClassifier ==
    \A f \in ForcedNames :
        /\ f \in RegistryKeys
        /\ OnlyInvoked(f)
        /\ ClassificationOver => (DescribedBy(f) \/ EndedUndetected)

\* What holds of the code: only the forced classifier runs, and no other
\* ecosystem's descriptor comes out; besides the two outcomes of the claim
\* there is the traceback of a classifier that raised.
C23_NeverAnotherEcosystem ==
    \A f \in ForcedNames :
        /\ f \in RegistryKeys
        /\ OnlyInvoked(f)
        /\ ClassificationOver => (DescribedBy(f) \/ EndedUndetected \/ (f = "node" /\ Crashed))

\* maven was forced on a tree without pom.xml on which another classifier
\* would have answered: the command ended with NoEcosystemDetected
C23_OtherGateWitness ==
    /\ "maven" \in ForcedNames
    /\ pc = "done" /\ outcome = "NoEcosystemDetected" /\ exit_code = 1
    /\ \E g \in RegistryKeys \ { "maven" } : IsDescriptor(Detect(g, project))

-----------------------------------------------------------------------------
(* C24 *)

VersionSources == << ".python-version", "runtime.txt", "pyproject.toml", "setup.py" >>

\* The version a source gives, NoMatch when it gives none: the text of the
\* pin file, or what the pattern of the source captures, as MAJOR.MINOR.
VersionGivenBy(p, source) ==
    CASE source = ".python-version" -> normalize_version(strip(read_file(p, ".python-version")))
      [] source = "runtime.txt" ->
            extract_version_from_content(p, "runtime.txt", "python-(d+.d+(.d+)?)")
      [] source = "pyproject.toml" ->
            extract_version_from_content(p, "pyproject.toml", "python = (d+.d+)")
      [] OTHER ->
            extract_version_from_content(p, "setup.py", "python_requires = (d+.d+)")

FirstVersionHit(p) ==
    LET hits == { k \in 1..Len(VersionSources) : VersionGivenBy(p, VersionSources[k]) # NoMatch }
    IN IF hits = {} THEN "3.11"
       ELSE VersionGivenBy(p, VersionSources[CHOOSE k \in hits : \A j \in hits : k <= j])

PythonDescribed == detected_framework = "python" /\ IsDescriptor(detection_result)

\* C24: python_version is the version given by the first of .python-version,
\* runtime.txt, pyproject.toml, setup.py that gives one, whatever the later
\* sources hold, and '3.11' when none of the four gives a version.
C24_FirstVersionSourceWins ==
    PythonDescribed => detection_result.python_version = FirstVersionHit(project)

\* What holds of the code: the same, for every tree whose .python-version,
\* when there is one, holds a version.
C24_FirstHitUnlessPinIsEmpty ==
    (PythonDescribed /\ ~ (file_exists(project, ".python-version")
                           /\ strip(read_file(project, ".python-version")) = "")) =>
        detection_result.python_version = FirstVersionHit(project)

\* no pin file, a runtime.txt without a version, pyproject.toml and setup.py
\* both with one: the version of pyproject.toml came out
C24_LaterSourceWitness ==
    /\ PythonDescribed
    /\ ~ file_exists(project, ".python-version")
    /\ file_exists(project, "runtime.txt")
    /\ VersionGivenBy(project, "runtime.txt") = NoMatch
    /\ VersionGivenBy(project, "pyproject.toml") = "3.10"
    /\ VersionGivenBy(project, "setup.py") = "3.8"
    /\ detection_result.python_version = "3.10"

-----------------------------------------------------------------------------
(* C25 *)

\* the priority list of each ecosystem: the dependency names tested, in order
FrameworkMarkers(fw_name) ==
    IF fw_name = "python" THEN << "fastapi", "flask", "django" >>
    ELSE << "next", "@nestjs/core", "express", "fastify", "koa" >>

\* the framework a marker stands for
FrameworkOf(marker) ==
    CASE marker = "next" -> "nextjs"
      [] marker = "@nestjs/core" -> "nestjs"
      [] OTHER -> marker

DeclaredDependencies(fw_name, p) ==
    IF fw_name = "python" THEN Python_read_all_dependencies(p) ELSE Node_get_all_dependencies(p)

FirstMarker(fw_name, p) ==
    LET markers == FrameworkMarkers(fw_name)
        present == { k \in 1..Len(markers) : markers[k] \in DeclaredDependencies(fw_name, p) }
    IN IF present = {} THEN Null
       ELSE markers[CHOOSE k \in present : \A j \in present : k <= j]

C25_WitnessNode ==
    /\ detected_framework = "node" /\ IsDescriptor(detection_result)
    /\ { "next", "express" } \subseteq DeclaredDependencies("node", project)
    /\ detection_result.framework = "nextjs"

-----------------------------------------------------------------------------
(* C26 *)

\* the package manager the claim gives for a tree
ManagerByLockFile(fw_name, p) ==
    IF fw_name = "python"
    THEN IF "poetry.lock" \in p.files THEN "poetry"
         ELSE IF "Pipfile" \in p.files THEN "pipenv"
         ELSE IF "requirements.txt" \in p.files THEN "pip"
         ELSE IF Contains(p, "pyproject.toml", "[tool.poetry]") THEN "poetry"
         ELSE "pip"
    ELSE IF "pnpm-lock.yaml" \in p.files THEN "pnpm"
         ELSE IF "yarn.lock" \in p.files THEN "yarn"
         ELSE "npm"

\* C26: the lock files decide the package manager, whatever else the tree
\* holds.  python: poetry when poetry.lock exists, else pipenv when Pipfile
\* exists, else pip when requirements.txt exists, else poetry when
\* pyproject.toml contains [tool.poetry], else pip.  node: pnpm when
\* pnpm-lock.yaml exists, else yarn when yarn.lock exists, else npm.
C26_LockFileDecidesManager ==
    (detected_framework \in { "python", "node" } /\ IsDescriptor(detection_result)) =>
        detection_result.package_manager = ManagerByLockFile(detected_framework, project)

\* poetry.lock, Pipfile and requirements.txt side by side: poetry
C26_Witness ==
    /\ detected_framework = "python" /\ IsDescriptor(detection_result)
    /\ { "poetry.lock", "Pipfile", "requirements.txt" } \subseteq project.files
    /\ detection_result.package_manager = "poetry"

\* no lock file and no requirements.txt, a pyproject.toml with [tool.poetry]: poetry
C26_WitnessPyproject ==
    /\ detected_framework = "python" /\ IsDescriptor(detection_result)
    /\ project.files \cap { "poetry.lock", "Pipfile", "requirements.txt" } = {}
    /\ Contains(project, "pyproject.toml", "[tool.poetry]")
    /\ detection_result.package_manager = "poetry"

\* the three node lock files side by side: pnpm
C26_WitnessNode ==
    /\ detected_framework = "node" /\ IsDescriptor(detection_result)
    /\ { "pnpm-lock.yaml", "yarn.lock", "package-lock.json" } \subseteq project.files
    /\ detection_result.package_manager = "pnpm"

-----------------------------------------------------------------------------
(* C27 *)

\* generate() is at a platform of its list that is no key of the template map
AtUnknownPlatform ==
    /\ gen_pc = "loop"
    /\ plat_idx <= Len(gen_platforms)
    /\ gen_platforms[plat_idx] \notin DOMAIN get_platform_template_map(generator)

\* the requested platforms that are keys of the template map, in the order given
KnownPlatforms ==
    SelectSeq(gen_platforms, LAMBDA x : x \in DOMAIN get_platform_template_map(generator))

\* the platforms for which the loop body went past the `continue`
AttemptedPlatforms ==
    LET attempts == SelectSeq(PlatformEvents, LAMBDA e : e[3] # "skipped")
    IN [i \in 1..Len(attempts) |-> attempts[i][2]]

\* Once the loop is over, the platforms attempted are the known ones, each in
\* its turn, and generated_files has entries of known platforms and of the
\* additional files only.
AttemptsAsIfNotRequested ==
    (HasPlatformLoop(generator) /\ gen_pc \in { "extras", "returned" }) =>
        /\ AttemptedPlatforms = KnownPlatforms
        /\ \A k \in DOMAIN generated_files :
              \/ k \in DOMAIN get_platform_template_map(generator)
              \/ \E j \in 1..Len(additional_files(generator)) : additional_files(generator)[j].key = k
        /\ (gen_pc = "returned" /\ ~ WriteFailedInRun) =>
              generated_files = ExpectedEntries(generator, Range(KnownPlatforms))

SkipsUnknownPlatform ==
    /\ AtUnknownPlatform =>
          /\ fs' = fs
          /\ templates' = templates
          /\ generated_files' = generated_files
          /\ faults' = faults
          /\ plat_idx' = plat_idx + 1
          /\ gen_pc' = "loop"
    /\ AttemptsAsIfNotRequested'

\* C27: a requested platform that is no key of the generator's template map
\* is skipped.  The step that meets it renders no template, creates no file
\* or directory and adds no entry to generated_files, and the loop goes on:
\* the platforms attempted, and the entries returned, are those of the list
\* without it.
C27_UnknownPlatformSkipped == [][SkipsUnknownPlatform]_vars

\* generate(..., ['travis', 'jenkins']): travis was skipped, the Jenkinsfile
\* was written and has its entry
C27_Witness ==
    /\ cmd = "generate" /\ gen_pc = "returned"
    /\ gen_platforms = << "travis", "jenkins" >>
    /\ PlatformEvents[1] = Event("platform", "travis", "skipped")
    /\ AttemptedPlatforms = << "jenkins" >>
    /\ "jenkins" \in DOMAIN generated_files /\ "travis" \notin DOMAIN generated_files
    /\ "Jenkinsfile" \in DOMAIN fs

-----------------------------------------------------------------------------
(* C28 *)

ContextCalls == { i \in 1..Len(trace) : trace[i][1] = "_prepare_context" }

\* the framework of the descriptor of a call: Null when the key is missing
FrameworkGiven(d) == IF "framework" \in DOMAIN d THEN d.framework ELSE Null

\* The port the claim gives: the one of the ecosystem's table for a listed
\* framework (python looks the name up in lower case), the ecosystem's
\* fallback otherwise.
ClaimedPort(g, fw) ==
    LET name == IF g = "python" /\ fw # Null THEN lower(fw) ELSE fw
        fallback == CASE g = "python" -> 8000
                      [] g = "node" -> 3000
                      [] g \in { "maven", "gradle", "java" } -> 8080
                      [] g = "dotnet" -> 8080
    IN IF name \in DOMAIN FrameworkPorts(g) THEN FrameworkPorts(g)[name] ELSE fallback

\* C28: docker_port of the context is a total function of the descriptor's
\* framework: the port of the ecosystem's lookup table when the framework is
\* listed there (python flask -> 5000), and the ecosystem's fallback port for
\* a null, missing or unlisted framework (python 8000, node 3000, maven,
\* gradle and java 8080, dotnet 8080); building the context never fails.
C28_PortIsTotal ==
    \A i \in ContextCalls :
        LET g == trace[i][2].g
            fw == FrameworkGiven(trace[i][2].d)
        IN /\ trace[i][3] # Raised
           /\ trace[i][3].docker_port = ClaimedPort(g, fw)
           /\ (g = "python" /\ fw = "flask") => trace[i][3].docker_port = 5000
           /\ fw \in { Null, "bottle" } =>
                 trace[i][3].docker_port =
                     (IF g = "python" THEN 8000 ELSE IF g = "node" THEN 3000 ELSE 8080)

\* the python context of a descriptor without a framework key has port 8000
C28_Witness ==
    \E i \in ContextCalls :
        /\ trace[i][2].g = "python"
        /\ "framework" \notin DOMAIN trace[i][2].d
        /\ trace[i][3] # Raised
        /\ trace[i][3].docker_port = 8000

\* the python context of a flask descriptor has port 5000
C28_WitnessFlask ==
    \E i \in ContextCalls :
        /\ trace[i][2] = [g |-> "python", d |-> [language |-> "any", framework |-> "flask"]]
        /\ trace[i][3] # Raised
        /\ trace[i][3].docker_port = 5000

-----------------------------------------------------------------------------
(* C29 *)

\* generate() into a directory that holds the files of an earlier run: every
\* output path of the generator is there, rendered a second earlier, and the
\* template directory may have changed since.
RegenerateLists == { << "jenkins" >>, << "github", "jenkins" >> }

EarlierFiles(g, d) ==
    [path \in OutputPaths(g) |-> Render(TemplateOf(g, path), prepare_context(g, d, -1))]

InitRegenerate ==
    /\ cmd = "generate"
    /\ pc = "generating"
    /\ project = EmptyProject
    /\ framework = NoOption
    /\ platforms = << >>
    /\ requested_platforms = << >>
    /\ frameworks_to_try = << >>
    /\ fw_idx = 1
    /\ \E g \in Generators, l \in RegenerateLists :
          /\ generator = g
          /\ detected_framework = g
          /\ detection_result \in Descriptors(g)
          /\ call_args = [n |-> 3, isNone |-> FALSE, list |-> l]
          /\ trace = << Event("generate", g, "") >>
          /\ fs = EarlierFiles(g, detection_result)
    /\ exit_code = Running
    /\ outcome = ""
    /\ gen_pc = "call"
    /\ gen_platforms = << >>
    /\ plat_idx = 1
    /\ extra_idx = 1
    /\ generated_files = << >>
    /\ context = None
    /\ templates = << >>
    /\ faults = 0
    /\ util_call = NoUtilCall
    /\ util_ret = NotReturned
    /\ par = << >>
    /\ disk = << >>

NextRegenerate ==
    \/ GenerateEnter
    \/ GeneratePlatform
    \/ GenerateLoopEnd
    \/ GenerateExtra
    \/ GenerateReturn
    \/ GenerateEnds

SpecRegenerate == InitRegenerate /\ [][NextRegenerate]_vars

\* the step is an iteration of the platform loop (past the `continue`)
PlatformStep ==
    /\ gen_pc = "loop"
    /\ plat_idx <= Len(gen_platforms)
    /\ gen_platforms[plat_idx] \in DOMAIN get_platform_template_map(generator)
    /\ plat_idx' = plat_idx + 1

\* ... in which rendering the template of the platform failed
RenderFailedStep ==
    /\ PlatformStep
    /\ trace' = Append(trace, Event("platform", gen_platforms[plat_idx], "render_failed"))

RegularFilesOf(f) == { path \in DOMAIN f : f[path] # Directory }

NoWriteWithoutRender ==
    /\ RenderFailedStep =>
          LET out == get_platform_template_map(generator)[gen_platforms[plat_idx]].output
          IN /\ (out \in DOMAIN fs') <=> (out \in DOMAIN fs)
             /\ out \in DOMAIN fs => fs'[out] = fs[out]
             /\ RegularFilesOf(fs') = RegularFilesOf(fs)
             /\ \A path \in RegularFilesOf(fs) : fs'[path] = fs[path]
             /\ generated_files' = generated_files
    /\ PlatformStep =>
          LET config == get_platform_template_map(generator)[gen_platforms[plat_idx]]
          IN (/\ config.output \in DOMAIN fs'
              /\ config.output \in DOMAIN fs => fs'[config.output] # fs[config.output]) =>
                /\ config.template \in DOMAIN templates'
                /\ templates'[config.template] = "ok"

\* C29: when rendering the template of a platform fails, nothing is written
\* for that platform: no file appears at its output path, a file that was
\* there keeps its content, and no other file changes; the content of an
\* output path changes only in a step whose template rendered (rendering is
\* over before the file is opened).
C29_RenderFailureWritesNothing == [][NoWriteWithoutRender]_vars

\* Jenkinsfile.j2 has just failed to render and the Jenkinsfile of the
\* earlier run is still there, as it was
C29_Witness ==
    /\ gen_pc = "loop"
    /\ trace[Len(trace)] = Event("platform", "jenkins", "render_failed")
    /\ "Jenkinsfile" \in DOMAIN fs
    /\ fs["Jenkinsfile"] = EarlierFiles(generator, detection_result)["Jenkinsfile"]
    /\ "jenkins" \notin DOMAIN generated_files

-----------------------------------------------------------------------------
(* C30 *)

\* the signals of pytest a tree can hold
PytestSignals(p) ==
    { signal \in { "pytest.ini", "pyproject.toml", "setup.cfg", "dependencies", "imports" } :
        CASE signal = "pytest.ini" -> "pytest.ini" \in p.files
          [] signal = "pyproject.toml" -> Contains(p, "pyproject.toml", "[tool.pytest")
          [] signal = "setup.cfg" ->
                Contains(p, "setup.cfg", "[tool:pytest]") \/ Contains(p, "setup.cfg", "[pytest]")
          [] signal = "dependencies" -> "pytest" \in Python_read_all_dependencies(p)
          [] OTHER -> Python_has_pytest_imports(p) }

C30_WitnessImports ==
    /\ PythonDescribed
    /\ PytestSignals(project) = { "imports" }
    /\ detection_result.test_framework = "pytest"

====
